---- MODULE Spec2Model ----
(***************************************************************************)
(* Model of the TradingBot signal engine: the trade-plan simulator         *)
(* (services/tradePlan), the outcome evaluator (services/performance) and  *)
(* the backend worker with its HTTP triggers (backend/worker, server).     *)
(*                                                                         *)
(* Conventions.  Prices and times are integers.  A JavaScript number that  *)
(* may be NaN/undefined is a sequence of length <= 1 (<<>> = non-finite).  *)
(* Sequences are 1-based here: index k stands for the source's k-1, so     *)
(* entryIdx = 0 stands for findIndex's -1 and lastTpIndex = 0 for -1.      *)
(* A value r in risk units is the exact rational num/den.                  *)
(***************************************************************************)
EXTENDS Integers, Sequences, FiniteSets, TLC

VARIABLES
  signal,      \* tradePlan/performance: the Signal argument
  candles,     \* tradePlan/performance: the Candle[] argument
  opts,        \* tradePlan/performance: the opts argument
  plan,        \* simulateTradePlan: position in the function and its locals
  trade,       \* evaluateSignal: the returned EvaluatedTrade (NoTrade before the call)
  history,     \* SignalWorker.history
  latest,      \* SignalWorker.latest
  runs,        \* the run() invocations: main's initial run, the interval callback's, POST /refresh's
  running,     \* the flag of the setInterval callback in main()
  phase,       \* main(): "boot" until the initial run returned, then "serving"
  now,         \* Date.now()
  ohlcvCache,  \* RealDataAdapter.ohlcvCache
  nextId,      \* source of fresh signal ids (uuid)
  runCount,    \* number of triggers so far
  faults,      \* number of failures so far
  args,        \* the other services: the arguments of the call
  ret          \* the other services: <<>> before the call, then progress and result

pureVars == <<signal, candles, opts, plan, trade>>

workerVars == <<history, latest, runs, running, phase, now, ohlcvCache, nextId, runCount, faults>>

fnVars == <<args, ret>>

vars == <<signal, candles, opts, plan, trade,
          history, latest, runs, running, phase, now, ohlcvCache, nextId, runCount, faults,
          args, ret>>

(***************************************************************************)
(* Bounds and input domains                                                *)
(***************************************************************************)
MaxBars == 3

\* bar shapes around entry 5 (stops at 4 / 6, R targets at 6,7,8 / 4,3,2)
BarShapes ==
  { [low |-> 5, high |-> 5, close |-> 5],
    [low |-> 4, high |-> 5, close |-> 4],
    [low |-> 5, high |-> 6, close |-> 6],
    [low |-> 5, high |-> 7, close |-> 7],
    [low |-> 4, high |-> 6, close |-> 5],
    [low |-> 3, high |-> 5, close |-> 3] }

RECURSIVE SeqsUpTo(_, _)
SeqsUpTo(S, n) ==
  IF n = 0 THEN { <<>> }
  ELSE LET shorter == SeqsUpTo(S, n - 1)
       IN shorter \cup { Append(s, x) : s \in { t \in shorter : Len(t) = n - 1 }, x \in S }

\* candle series with strictly ascending times 1, 2, ..., n
CandleSeries ==
  { [k \in 1..Len(sh) |-> [time |-> k, low |-> sh[k].low, high |-> sh[k].high, close |-> sh[k].close]]
      : sh \in SeqsUpTo(BarShapes, MaxBars) }

Min(a, b) == IF a <= b THEN a ELSE b
Max(a, b) == IF a >= b THEN a ELSE b
Abs(a) == IF a >= 0 THEN a ELSE 0 - a

\* the worker is not part of the pure-function specifications
WorkerNotStarted ==
  /\ history = <<>>
  /\ latest = [status |-> "unknown"]
  /\ runs = <<>>
  /\ running = FALSE
  /\ phase = "off"
  /\ now = 0
  /\ ohlcvCache = <<>>
  /\ nextId = 0
  /\ runCount = 0
  /\ faults = 0

\* the other services are not part of these specifications
FnNotCalled ==
  /\ args = <<>>
  /\ ret = <<>>

(***************************************************************************)
(* services/tradePlan                                                      *)
(***************************************************************************)
\* Number.isFinite(sig[field]): a signal lists the fields that hold NaN or an infinity
\* in nonFinite (their integer is then unused); without the list every field is finite
NumberIsFinite(sig, field) == "nonFinite" \notin DOMAIN sig \/ field \notin sig.nonFinite

computeRTargets_NoRiskGuard(sig, tpMultipliers) ==
  LET risk == Abs(sig.entry - sig.stop)
  IN [k \in 1..Len(tpMultipliers) |->
        [r |-> tpMultipliers[k],
         price |-> IF sig.side = "long"
                   THEN sig.entry + risk * tpMultipliers[k]
                   ELSE sig.entry - risk * tpMultipliers[k]]]

computeRTargets(sig, tpMultipliers) ==
  LET risk == Abs(sig.entry - sig.stop)
  IN IF ~NumberIsFinite(sig, "entry") \/ ~NumberIsFinite(sig, "stop") THEN <<>>
     ELSE IF risk <= 0 THEN <<>>
     ELSE [k \in 1..Len(tpMultipliers) |->
             [r |-> tpMultipliers[k],
              price |-> IF sig.side = "long"
                        THEN sig.entry + risk * tpMultipliers[k]
                        ELSE sig.entry - risk * tpMultipliers[k]]]

\* candles.findIndex((c) => c.time >= ts), 1-based, 0 when none
RECURSIVE FindIndexFrom(_, _, _)
FindIndexFrom(cs, ts, k) ==
  IF k > Len(cs) THEN 0
  ELSE IF cs[k].time >= ts THEN k
  ELSE FindIndexFrom(cs, ts, k + 1)

findIndex(cs, ts) == FindIndexFrom(cs, ts, 1)

\* the inner while loop: number of consecutive targets from nextTargetIdx hit by bar c
RECURSIVE HitCount(_, _, _, _)
HitCount(targetPrices, nextTargetIdx, c, isLong) ==
  IF nextTargetIdx > Len(targetPrices) THEN 0
  ELSE LET target == targetPrices[nextTargetIdx]
           hit == IF isLong THEN c.high >= target ELSE c.low <= target
       IN IF ~hit THEN 0
          ELSE 1 + HitCount(targetPrices, nextTargetIdx + 1, c, isLong)

StopTouched(sig, c) ==
  IF sig.side = "long" THEN c.low <= sig.stop ELSE c.high >= sig.stop

EmaFinite(emaValues, i) == i \in DOMAIN emaValues /\ emaValues[i] # <<>>

PlanIdle == [pc |-> "call"]

\* evaluateSignal has not returned yet
NoTrade == [outcome |-> "none"]

\* entry of simulateTradePlan up to the for loop (or an early return)
\* variant: the loop starts on the bar of the signal itself
SimStart_FromOwnBar ==
  /\ plan.pc = "call"
  /\ LET finite == NumberIsFinite(signal, "entry") /\ NumberIsFinite(signal, "stop")
         risk == IF finite THEN Abs(signal.entry - signal.stop) ELSE 0
         targets == computeRTargets(signal, opts.tpMultipliers)
         entryIdx == findIndex(candles, signal.timestamp)
         early == [pc |-> "done", risk |-> risk, targets |-> targets, tpsHit |-> 0,
                   status |-> "open", events |-> <<>>, i |-> 0, nextTargetIdx |-> 1,
                   trendViolations |-> 0, lastTpIndex |-> 0, end |-> 0, entryIdx |-> entryIdx]
     IN plan' =
          IF Len(candles) = 0 \/ ~finite \/ risk <= 0 THEN early
          ELSE IF entryIdx = 0 \/ entryIdx >= Len(candles) THEN early
          ELSE [early EXCEPT !.pc = "loop", !.i = entryIdx,
                             !.end = Min(Len(candles), entryIdx + Max(1, opts.maxHoldBars))]
  /\ UNCHANGED <<signal, candles, opts, trade>>
  /\ UNCHANGED workerVars
  /\ UNCHANGED fnVars

SimStart ==
  /\ plan.pc = "call"
  /\ LET finite == NumberIsFinite(signal, "entry") /\ NumberIsFinite(signal, "stop")
         risk == IF finite THEN Abs(signal.entry - signal.stop) ELSE 0
         targets == computeRTargets(signal, opts.tpMultipliers)
         entryIdx == findIndex(candles, signal.timestamp)
         early == [pc |-> "done", risk |-> risk, targets |-> targets, tpsHit |-> 0,
                   status |-> "open", events |-> <<>>, i |-> 0, nextTargetIdx |-> 1,
                   trendViolations |-> 0, lastTpIndex |-> 0, end |-> 0, entryIdx |-> entryIdx]
     IN plan' =
          IF Len(candles) = 0 \/ ~finite \/ risk <= 0 THEN early
          ELSE IF entryIdx = 0 \/ entryIdx >= Len(candles) THEN early
          ELSE [early EXCEPT !.pc = "loop", !.i = entryIdx + 1,
                             !.end = Min(Len(candles), entryIdx + Max(1, opts.maxHoldBars))]
  /\ UNCHANGED <<signal, candles, opts, trade>>
  /\ UNCHANGED workerVars
  /\ UNCHANGED fnVars

\* variant: the loop keeps scanning after a STOP instead of breaking
SimBarStep_NoBreak(p) ==
  LET c == candles[p.i]
  IN IF StopTouched(signal, c)
     THEN [p EXCEPT !.events = Append(p.events, [type |-> "stop", time |-> c.time]),
                    !.status = "stop", !.i = p.i + 1]
     ELSE [p EXCEPT !.i = p.i + 1]

\* variant: targets are booked before the stop test of the same bar
SimBarStep_TpFirst(p) ==
  LET i == p.i
      c == candles[i]
      targetPrices == [k \in 1..Len(p.targets) |-> p.targets[k].price]
      hitCount == HitCount(targetPrices, p.nextTargetIdx, c, signal.side = "long")
      tpsHit == p.tpsHit + hitCount
      evTp == IF hitCount > 0
              THEN Append(p.events, [type |-> "tp", time |-> c.time, tpFrom |-> p.tpsHit + 1, tpTo |-> tpsHit])
              ELSE p.events
  IN IF StopTouched(signal, c)
     THEN [p EXCEPT !.nextTargetIdx = p.nextTargetIdx + hitCount, !.tpsHit = tpsHit,
                    !.events = Append(evTp, [type |-> "stop", time |-> c.time]),
                    !.status = "stop", !.pc = "done"]
     ELSE [p EXCEPT !.nextTargetIdx = p.nextTargetIdx + hitCount, !.tpsHit = tpsHit,
                    !.lastTpIndex = IF hitCount > 0 THEN i ELSE p.lastTpIndex,
                    !.events = evTp, !.i = i + 1]

\* variant: a combined TP event starts at the previous count instead of the next target
SimBarStep_TpFromOff(p) ==
  LET i == p.i
      c == candles[i]
      targetPrices == [k \in 1..Len(p.targets) |-> p.targets[k].price]
      hitCount == HitCount(targetPrices, p.nextTargetIdx, c, signal.side = "long")
      tpsHit == p.tpsHit + hitCount
  IN IF StopTouched(signal, c)
     THEN [p EXCEPT !.events = Append(p.events, [type |-> "stop", time |-> c.time]),
                    !.status = "stop", !.pc = "done"]
     ELSE [p EXCEPT !.nextTargetIdx = p.nextTargetIdx + hitCount, !.tpsHit = tpsHit,
                    !.lastTpIndex = IF hitCount > 0 THEN i ELSE p.lastTpIndex,
                    !.events = IF hitCount > 0
                               THEN Append(p.events, [type |-> "tp", time |-> c.time,
                                                      tpFrom |-> p.tpsHit, tpTo |-> tpsHit])
                               ELSE p.events,
                    !.i = i + 1]

\* variant: EXIT may fall on the bar of the latest TP event
SimBarStep_ExitOnTpBar(p) ==
  LET i == p.i
      c == candles[i]
      isLong == signal.side = "long"
      targetPrices == [k \in 1..Len(p.targets) |-> p.targets[k].price]
      stopHit == StopTouched(signal, c)
      hitCount == HitCount(targetPrices, p.nextTargetIdx, c, isLong)
      prev == p.tpsHit
      tpsHit == prev + hitCount
      lastTpIndex == IF hitCount > 0 THEN i ELSE p.lastTpIndex
      evTp == IF hitCount > 0
              THEN Append(p.events, [type |-> "tp", time |-> c.time, tpFrom |-> prev + 1, tpTo |-> tpsHit])
              ELSE p.events
      afterTp == [p EXCEPT !.nextTargetIdx = p.nextTargetIdx + hitCount, !.tpsHit = tpsHit,
                           !.lastTpIndex = lastTpIndex, !.events = evTp, !.i = i + 1]
      confirmBars == Max(1, opts.confirmBars)
      trendOk == IF isLong THEN c.close >= opts.emaValues[i][1] ELSE c.close <= opts.emaValues[i][1]
      trendViolations == IF trendOk THEN 0 ELSE p.trendViolations + 1
  IN IF stopHit
     THEN [p EXCEPT !.events = Append(p.events, [type |-> "stop", time |-> c.time]),
                    !.status = "stop", !.pc = "done"]
     ELSE IF opts.requireTpForExit /\ tpsHit = 0 THEN afterTp
     ELSE IF ~EmaFinite(opts.emaValues, i) THEN afterTp
     ELSE IF trendViolations >= confirmBars
     THEN [afterTp EXCEPT !.trendViolations = trendViolations,
                          !.events = Append(evTp, [type |-> "exit", time |-> c.time]),
                          !.status = "exit", !.pc = "done", !.i = i]
     ELSE [afterTp EXCEPT !.trendViolations = trendViolations]

\* one iteration of the for loop
SimBarStep(p) ==
  LET i == p.i
      c == candles[i]
      isLong == signal.side = "long"
      targetPrices == [k \in 1..Len(p.targets) |-> p.targets[k].price]
      stopHit == StopTouched(signal, c)
      hitCount == HitCount(targetPrices, p.nextTargetIdx, c, isLong)
      prev == p.tpsHit
      tpsHit == prev + hitCount
      lastTpIndex == IF hitCount > 0 THEN i ELSE p.lastTpIndex
      evTp == IF hitCount > 0
              THEN Append(p.events, [type |-> "tp", time |-> c.time, tpFrom |-> prev + 1, tpTo |-> tpsHit])
              ELSE p.events
      afterTp == [p EXCEPT !.nextTargetIdx = p.nextTargetIdx + hitCount, !.tpsHit = tpsHit,
                           !.lastTpIndex = lastTpIndex, !.events = evTp, !.i = i + 1]
      confirmBars == Max(1, opts.confirmBars)
      trendOk == IF isLong THEN c.close >= opts.emaValues[i][1] ELSE c.close <= opts.emaValues[i][1]
      trendViolations == IF trendOk THEN 0 ELSE p.trendViolations + 1
  IN IF stopHit
     THEN [p EXCEPT !.events = Append(p.events, [type |-> "stop", time |-> c.time]),
                    !.status = "stop", !.pc = "done"]
     ELSE IF opts.requireTpForExit /\ tpsHit = 0 THEN afterTp
     ELSE IF ~EmaFinite(opts.emaValues, i) THEN afterTp
     ELSE IF trendViolations >= confirmBars /\ i > lastTpIndex
     THEN [afterTp EXCEPT !.trendViolations = trendViolations,
                          !.events = Append(evTp, [type |-> "exit", time |-> c.time]),
                          !.status = "exit", !.pc = "done", !.i = i]
     ELSE [afterTp EXCEPT !.trendViolations = trendViolations]

SimBar ==
  /\ plan.pc = "loop"
  /\ plan.i <= plan.end
  /\ plan' = SimBarStep(plan)
  /\ UNCHANGED <<signal, candles, opts, trade>>
  /\ UNCHANGED workerVars
  /\ UNCHANGED fnVars

\* loop exhausted: return { risk, targets, tpsHit, status, events }
SimReturn ==
  /\ plan.pc = "loop"
  /\ plan.i > plan.end
  /\ plan' = [plan EXCEPT !.pc = "done"]
  /\ UNCHANGED <<signal, candles, opts, trade>>
  /\ UNCHANGED workerVars
  /\ UNCHANGED fnVars

PlanSignals ==
  { [side |-> sd, entry |-> 5, stop |-> st, tp1 |-> 5, rr |-> 2, timestamp |-> ts]
      : sd \in {"long", "short"}, st \in {4, 5, 6}, ts \in 1..2 }

EmaSeries ==
  { <<>> } \cup { [k \in 1..MaxBars |-> <<e>>] : e \in {4, 6, 8} }
           \cup { [k \in 1..MaxBars |-> IF k = 2 THEN <<>> ELSE <<6>>] }

PlanOpts ==
  { [tpMultipliers |-> <<1, 2, 3>>, confirmBars |-> cb, maxHoldBars |-> mh,
     requireTpForExit |-> rq, emaValues |-> ev]
      : cb \in 1..2, mh \in {1, MaxBars}, rq \in BOOLEAN, ev \in EmaSeries }

InitPlan ==
  /\ signal \in { s \in PlanSignals : (s.side = "long") = (s.stop <= s.entry) }
  /\ candles \in CandleSeries
  /\ opts \in PlanOpts
  /\ plan = PlanIdle
  /\ trade = NoTrade
  /\ WorkerNotStarted
  /\ FnNotCalled

NextPlan == SimStart \/ SimBar \/ SimReturn

SpecPlan == InitPlan /\ [][NextPlan]_vars

(***************************************************************************)
(* services/performance                                                    *)
(***************************************************************************)
\* binary search over the candle times, 1-based: first index with time >= ts
RECURSIVE FirstIndexSearch(_, _, _, _)
FirstIndexSearch(cs, ts, lo, hi) ==
  IF lo > hi THEN lo
  ELSE LET mid == (lo + hi) \div 2
       IN IF cs[mid].time < ts THEN FirstIndexSearch(cs, ts, mid + 1, hi)
          ELSE FirstIndexSearch(cs, ts, lo, mid - 1)

firstIndexAtOrAfter(cs, ts) == FirstIndexSearch(cs, ts, 1, Len(cs))

\* numerator of the cost in R over the denominator 10000 * risk
costInR(entry, exit, risk, costs) ==
  IF costs = <<>> THEN 0
  ELSE LET totalBps == costs[1].feeBps + costs[1].slippageBps
       IN IF totalBps <= 0 \/ risk <= 0 THEN 0
          ELSE (entry + exit) * totalBps

RDen(risk) == 10000 * risk

OpenTrade == [outcome |-> "open", r |-> [num |-> 0, den |-> 1], barsHeld |-> 0]

TpTouched(sig, c) ==
  IF sig.side = "long" THEN c.high >= sig.tp1 ELSE c.low <= sig.tp1

\* variant: the target is tested before the stop on the same candle
RECURSIVE ScanBars_TpFirst(_, _, _, _, _, _)
ScanBars_TpFirst(sig, cs, i, endIdx, start, costs) ==
  LET risk == Abs(sig.entry - sig.stop)
  IN IF i > endIdx THEN <<>>
     ELSE IF TpTouched(sig, cs[i])
     THEN << [outcome |-> "tp1",
              r |-> [num |-> sig.rr * RDen(risk) - costInR(sig.entry, sig.tp1, risk, costs), den |-> RDen(risk)],
              barsHeld |-> i - start] >>
     ELSE IF StopTouched(sig, cs[i])
     THEN << [outcome |-> "stop",
              r |-> [num |-> 0 - RDen(risk) - costInR(sig.entry, sig.stop, risk, costs), den |-> RDen(risk)],
              barsHeld |-> i - start] >>
     ELSE ScanBars_TpFirst(sig, cs, i + 1, endIdx, start, costs)

\* the for loop of evaluateSignal: <<trade>> at the first touching bar, <<>> when none
RECURSIVE ScanBars(_, _, _, _, _, _)
ScanBars(sig, cs, i, endIdx, start, costs) ==
  LET risk == Abs(sig.entry - sig.stop)
  IN IF i > endIdx THEN <<>>
     ELSE IF StopTouched(sig, cs[i])
     THEN << [outcome |-> "stop",
              r |-> [num |-> 0 - RDen(risk) - costInR(sig.entry, sig.stop, risk, costs), den |-> RDen(risk)],
              barsHeld |-> i - start] >>
     ELSE IF TpTouched(sig, cs[i])
     THEN << [outcome |-> "tp1",
              r |-> [num |-> sig.rr * RDen(risk) - costInR(sig.entry, sig.tp1, risk, costs), den |-> RDen(risk)],
              barsHeld |-> i - start] >>
     ELSE ScanBars(sig, cs, i + 1, endIdx, start, costs)

\* variant: a window that ends before the series does is still reported open
TimeExit_AlwaysOpen(sig, cs, start, endIdx, costs) ==
  LET risk == Abs(sig.entry - sig.stop)
      exit == cs[endIdx].close
      move == IF sig.side = "long" THEN exit - sig.entry ELSE sig.entry - exit
  IN [outcome |-> "open",
      r |-> [num |-> move * 10000 - costInR(sig.entry, exit, risk, costs), den |-> RDen(risk)],
      barsHeld |-> endIdx - start]

\* the time-based exit of evaluateSignal: close at the close of candle endIdx
TimeExit(sig, cs, start, endIdx, costs) ==
  LET risk == Abs(sig.entry - sig.stop)
      exit == cs[endIdx].close
      move == IF sig.side = "long" THEN exit - sig.entry ELSE sig.entry - exit
  IN [outcome |-> IF endIdx = Len(cs) THEN "open" ELSE "timeout",
      r |-> [num |-> move * 10000 - costInR(sig.entry, exit, risk, costs), den |-> RDen(risk)],
      barsHeld |-> endIdx - start]

evaluateSignal(sig, cs, o) ==
  LET maxHoldBars == Max(1, o.maxHoldBars)
      costs == o.executionCosts
  IN IF Len(cs) = 0 THEN OpenTrade
     ELSE IF \/ ~NumberIsFinite(sig, "timestamp")
             \/ sig.timestamp < cs[1].time \/ sig.timestamp > cs[Len(cs)].time THEN OpenTrade
     ELSE LET startIdx == firstIndexAtOrAfter(cs, sig.timestamp)
              start == Min(startIdx, Len(cs))
              endIdx == Min(Len(cs), start + maxHoldBars)
              risk == Abs(sig.entry - sig.stop)
              scan == ScanBars(sig, cs, start + 1, endIdx, start, costs)
          IN IF \/ ~NumberIsFinite(sig, "entry") \/ sig.entry <= 0
                \/ ~NumberIsFinite(sig, "stop") \/ ~NumberIsFinite(sig, "tp1")
                \/ risk <= 0 THEN OpenTrade
             ELSE IF scan # <<>> THEN scan[1]
             ELSE IF endIdx > start THEN TimeExit(sig, cs, start, endIdx, costs)
             ELSE OpenTrade

Evaluate ==
  /\ trade.outcome = "none"
  /\ trade' = evaluateSignal(signal, candles, opts)
  /\ UNCHANGED <<signal, candles, opts, plan>>
  /\ UNCHANGED workerVars
  /\ UNCHANGED fnVars

EvalSignals ==
  { [side |-> sd, entry |-> 5, stop |-> st, tp1 |-> tp, rr |-> Abs(tp - 5), timestamp |-> ts]
      : sd \in {"long", "short"}, st \in {4, 5, 6}, tp \in {3, 4, 6, 7}, ts \in 0..(MaxBars + 1) }

ExecutionCostsSet ==
  { <<>>, << [feeBps |-> 2, slippageBps |-> 1] >>, << [feeBps |-> 0, slippageBps |-> 0] >> }

EvalOpts ==
  { [maxHoldBars |-> mh, executionCosts |-> ec] : mh \in 1..2, ec \in ExecutionCostsSet }

InitEval ==
  /\ signal \in { s \in EvalSignals : /\ (s.side = "long") = (s.stop <= s.entry)
                                      /\ (s.side = "long") = (s.tp1 > s.entry) }
  /\ candles \in CandleSeries
  /\ opts \in EvalOpts
  /\ plan = PlanIdle
  /\ trade = NoTrade
  /\ WorkerNotStarted
  /\ FnNotCalled

NextEval == Evaluate

SpecEval == InitEval /\ [][NextEval]_vars

(***************************************************************************)
(* computeRTargets, simulateTradePlan and evaluateSignal called on the same *)
(* signal, degenerate signals included                                      *)
(***************************************************************************)
\* risk 0, entry or stop not finite, tp1 not finite, and a regular signal
DegenerateSignals ==
  { [side |-> sd, entry |-> 5, stop |-> st, tp1 |-> IF sd = "long" THEN 7 ELSE 3, rr |-> 2,
     timestamp |-> ts, nonFinite |-> nf]
      : sd \in { "long", "short" }, st \in { 4, 5, 6 }, ts \in 1..2,
        nf \in { {}, { "entry" }, { "stop" }, { "entry", "stop" }, { "tp1" } } }

DegenerateOpts ==
  { [tpMultipliers |-> << 1, 2, 3 >>, confirmBars |-> 1, maxHoldBars |-> MaxBars,
     requireTpForExit |-> TRUE, emaValues |-> [k \in 1..MaxBars |-> << 6 >>],
     executionCosts |-> ec] : ec \in { << [feeBps |-> 2, slippageBps |-> 1] >> } }

InitDegenerate ==
  /\ signal \in DegenerateSignals
  /\ candles \in CandleSeries
  /\ opts \in DegenerateOpts
  /\ plan = PlanIdle
  /\ trade = NoTrade
  /\ WorkerNotStarted
  /\ FnNotCalled

ComputeRTargets ==
  /\ ret = << >>
  /\ ret' = << computeRTargets(signal, opts.tpMultipliers) >>
  /\ UNCHANGED << args, pureVars, workerVars >>

NextDegenerate == ComputeRTargets \/ SimStart \/ SimBar \/ SimReturn \/ Evaluate

SpecDegenerate == InitDegenerate /\ [][NextDegenerate]_vars

(***************************************************************************)
(* backend/worker, backend/server, adapters/exchangeAdapter                *)
(***************************************************************************)
\* configuration (historyCap, maxHoldBars, ohlcvLimit), scaled down
historyCap == 2
maxHoldBarsCfg == 1
ohlcvLimit == 3

\* at most MaxRuns triggers, MaxFaults failures (a unit throwing, a fetch failing on
\* every source, a write failing) and MaxNewSignals generated signals in a behaviour
MaxRuns == 3
MaxFaults == 2
MaxNewSignals == 2
MaxClock == 1

\* one clock step, in ms: one 5m bar
TickMs == 300 * 1000

\* config.symbols x config.timeframes in the order of the two for loops of run()
Units == << [symbol |-> "BTCUSDT", timeframe |-> "5m"],
            [symbol |-> "BTCUSDT", timeframe |-> "15m"] >>

timeframeSeconds(tf) ==
  CASE tf = "1m" -> 60 [] tf = "3m" -> 180 [] tf = "5m" -> 300 [] tf = "15m" -> 900
    [] tf = "1H" -> 3600 [] tf = "4H" -> 14400 [] tf = "D" -> 86400 [] tf = "W" -> 604800

DedupeMinutes == 15

RunIds == {"main", "tick", "refresh"}

\* a run() invocation: where it is, its locals, the entry getOHLCV read from the cache,
\* the units it evaluated, those whose fetch failed on every source, and the state it
\* handed to persistState
IdleRun == [pc |-> "idle", started |-> 0, unit |-> 0, collected |-> <<>>, errors |-> <<>>,
            cached |-> <<>>, evaluated |-> {}, fetchFailed |-> {}, handed |-> <<>>]

\* list.slice(-n)
SliceLast(list, n) ==
  IF Len(list) <= n THEN list ELSE SubSeq(list, Len(list) - n + 1, Len(list))

\* [...list].sort((a, b) => a.timestamp - b.timestamp), a stable sort
RECURSIVE InsertByTimestamp(_, _)
InsertByTimestamp(sorted, s) ==
  IF sorted = <<>> THEN <<s>>
  ELSE IF sorted[Len(sorted)].timestamp <= s.timestamp THEN Append(sorted, s)
  ELSE Append(InsertByTimestamp(SubSeq(sorted, 1, Len(sorted) - 1), s), sorted[Len(sorted)])

RECURSIVE SortByTimestamp(_)
SortByTimestamp(list) ==
  IF list = <<>> THEN <<>>
  ELSE InsertByTimestamp(SortByTimestamp(SubSeq(list, 1, Len(list) - 1)), list[Len(list)])

FlatBar == [low |-> 5, high |-> 5, close |-> 5]

\* the newest bar is quiet or dips to 3 (a long's stop, a short's tp1); older bars are quiet
FeedShapes == { FlatBar, [low |-> 3, high |-> 5, close |-> 5] }

\* the index of the newest bar of a timeframe at clock t (bar k opens at k * timeframeSeconds)
LastBar(tf, t) == ohlcvLimit + (t \div 1000) \div timeframeSeconds(tf)

\* what an exchange may answer at clock t: the last ohlcvLimit bars
Feed(tf, t) ==
  { [k \in 1..ohlcvLimit |->
       LET bar == IF k = ohlcvLimit THEN sh ELSE FlatBar
       IN [time |-> (LastBar(tf, t) - ohlcvLimit + k) * timeframeSeconds(tf),
           low |-> bar.low, high |-> bar.high, close |-> bar.close]] : sh \in FeedShapes }

\* resolveOutcomeTime: the time of the candle barsHeld bars after the signal's candle
resolveOutcomeTime(signalTs, cs, barsHeld) ==
  IF barsHeld < 0 \/ Len(cs) = 0 THEN <<>>
  ELSE LET startIdx == firstIndexAtOrAfter(cs, signalTs)
           exitIdx == Min(startIdx + Max(0, barsHeld), Len(cs))
       IN << cs[exitIdx].time >>

\* variant: outcomes are re-evaluated even when already resolved
UpdateOne_NoGuard(s, u, cs) ==
  IF s.symbol # u.symbol \/ s.timeframe # u.timeframe THEN s
  ELSE LET evaluation == evaluateSignal(s, cs, [maxHoldBars |-> maxHoldBarsCfg, executionCosts |-> <<>>])
           barsSince == (cs[Len(cs)].time - s.timestamp) \div timeframeSeconds(u.timeframe)
       IN IF evaluation.outcome # "open"
          THEN [s EXCEPT !.outcome = evaluation.outcome,
                         !.barsHeld = << evaluation.barsHeld >>,
                         !.outcomeAt = resolveOutcomeTime(s.timestamp, cs, evaluation.barsHeld)]
          ELSE IF s.timestamp < cs[1].time /\ barsSince >= maxHoldBarsCfg
          THEN [s EXCEPT !.outcome = "timeout", !.barsHeld = << barsSince >>,
                         !.outcomeAt = << cs[Len(cs)].time >>]
          ELSE s

\* the callback of this.history.map in updateSignalOutcomes
UpdateOne(s, u, cs) ==
  IF s.symbol # u.symbol \/ s.timeframe # u.timeframe THEN s
  ELSE IF s.outcome \notin {"none", "open"} THEN s
  ELSE LET evaluation == evaluateSignal(s, cs, [maxHoldBars |-> maxHoldBarsCfg, executionCosts |-> <<>>])
           firstTime == cs[1].time
           lastTime == cs[Len(cs)].time
           barsSince == (lastTime - s.timestamp) \div timeframeSeconds(u.timeframe)
       IN IF evaluation.outcome # "open"
          THEN [s EXCEPT !.outcome = evaluation.outcome,
                         !.barsHeld = << evaluation.barsHeld >>,
                         !.outcomeAt = resolveOutcomeTime(s.timestamp, cs, evaluation.barsHeld)]
          ELSE IF s.timestamp < firstTime /\ barsSince >= maxHoldBarsCfg
          THEN [s EXCEPT !.outcome = "timeout", !.barsHeld = << barsSince >>, !.outcomeAt = << lastTime >>]
          ELSE s

updateSignalOutcomes(h, u, cs) ==
  IF Len(cs) = 0 THEN h ELSE [k \in 1..Len(h) |-> UpdateOne(h[k], u, cs)]

RECURSIVE DedupeFrom(_, _, _)
DedupeFrom(cands, h, k) ==
  IF k > Len(cands) THEN <<>>
  ELSE LET c == cands[k]
           exists == \E j \in 1..Len(h) :
                       /\ h[j].symbol = c.symbol
                       /\ h[j].timeframe = c.timeframe
                       /\ h[j].side = c.side
                       /\ Abs(h[j].timestamp - c.timestamp) < DedupeMinutes * 60
       IN (IF exists THEN <<>> ELSE <<c>>) \o DedupeFrom(cands, h, k + 1)

\* variant: every candidate is kept
dedupeNewSignals_KeepAll(cands, h) == cands

\* dedupeNewSignals without the id, which the caller draws from nextId
dedupeNewSignals(cands, h) == DedupeFrom(cands, h, 1)

\* a candidate on the last candle: entry at its close, stop one away, tp1 at 2R
Candidate(u, cs, side) ==
  LET last == cs[Len(cs)]
  IN [symbol |-> u.symbol, timeframe |-> u.timeframe, side |-> side, entry |-> last.close,
      stop |-> IF side = "long" THEN last.close - 1 ELSE last.close + 1,
      tp1 |-> IF side = "long" THEN last.close + 2 ELSE last.close - 2,
      rr |-> 2, score |-> 85, timestamp |-> last.time,
      outcome |-> "none", barsHeld |-> <<>>, outcomeAt |-> <<>>]

\* the possible results of generateSignals: the strategies' decision is left open,
\* their output is nothing or one short candidate on the last candle, deduplicated
\* against history
generateSignals(u, cs, h) ==
  { <<>>, dedupeNewSignals(<< Candidate(u, cs, "short") >>, h) }

\* the ids of dedupeNewSignals and the enrichment of evaluateSymbolTimeframe
Enrich(generated, firstId) ==
  [k \in 1..Len(generated) |->
     [id |-> firstId + k - 1, symbol |-> generated[k].symbol, timeframe |-> generated[k].timeframe,
      side |-> generated[k].side, entry |-> generated[k].entry, stop |-> generated[k].stop,
      tp1 |-> generated[k].tp1, rr |-> generated[k].rr, score |-> generated[k].score,
      timestamp |-> generated[k].timestamp, outcome |-> "none", barsHeld |-> <<>>, outcomeAt |-> <<>>]]

ErrorOf(u) == [scope |-> << u.symbol, u.timeframe >>, message |-> "eval failed"]

PersistError == [scope |-> << "persist" >>, message |-> "write failed"]

\* where run() goes after unit k: the next unit of the loops, or persistState
AfterUnit(rn) ==
  IF rn.unit < Len(Units) THEN [rn EXCEPT !.unit = rn.unit + 1, !.pc = "fetch", !.cached = <<>>]
  ELSE [rn EXCEPT !.pc = "persist", !.cached = <<>>]

\* variant: a failing unit ends the loops of run()
AfterUnitThrow_Abort(rn, u) ==
  [rn EXCEPT !.errors = Append(rn.errors, ErrorOf(u)), !.pc = "persist", !.cached = <<>>]

\* the catch block of run() for unit u
AfterUnitThrow(rn, u) ==
  AfterUnit([rn EXCEPT !.errors = Append(rn.errors, ErrorOf(u))])

FirstNewId == historyCap + 2

\* evaluateSymbolTimeframe after getOHLCV returned data, inside the try of run(): the
\* possible states [rn, history, nextId, faults] after it.  A throw is placed
\* after updateSignalOutcomes (in the gate, the diagnostics, the generator or the model).
EvalResults(st, data, failedFetch) ==
  LET rn == [st.rn EXCEPT !.fetchFailed = IF failedFetch THEN @ \cup {st.rn.unit} ELSE @]
      u == Units[rn.unit]
      updated == updateSignalOutcomes(st.history, u, data)
  IN IF Len(data) = 0
     THEN { [st EXCEPT !.rn = AfterUnit([rn EXCEPT !.evaluated = @ \cup {rn.unit}])] }
     ELSE { [st EXCEPT !.rn = AfterUnitThrow(rn, u), !.history = updated, !.faults = @ + 1]
              : x \in { y \in {0} : st.faults < MaxFaults } }
          \cup
          { LET enriched == Enrich(generated, st.nextId)
            IN [st EXCEPT !.rn = AfterUnit([rn EXCEPT !.collected = @ \o enriched,
                                                     !.evaluated = @ \cup {rn.unit}]),
                          !.history = IF Len(generated) = 0 THEN updated
                                      ELSE SliceLast(updated \o enriched, historyCap),
                          !.nextId = @ + Len(enriched)]
              : generated \in { g \in generateSignals(u, data, updated) :
                                  st.nextId + Len(g) <= FirstNewId + MaxNewSignals } }

CacheFresh(cache, u, t) ==
  /\ cache[u.timeframe] # <<>>
  /\ t - cache[u.timeframe][1].ts < timeframeSeconds(u.timeframe) * 750

\* run() from a resumption to its next wait on the network or the disk: units served
\* from a fresh cache entry are evaluated at once; after the last unit persistState is
\* called with the capped history
RECURSIVE Continue(_, _)
Continue(st, cache) ==
  IF st.rn.pc = "fetch"
  THEN LET u == Units[st.rn.unit]
       IN IF CacheFresh(cache, u, now)
          THEN UNION { Continue(o, cache) : o \in EvalResults(st, cache[u.timeframe][1].data, FALSE) }
          ELSE { [st EXCEPT !.rn.pc = "fetching", !.rn.cached = cache[u.timeframe]] }
  ELSE { [st EXCEPT !.rn.pc = "persisting",
                    !.rn.handed = << [history |-> SliceLast(st.history, historyCap),
                                   lastRun |-> st.rn.started] >>] }

RunState(r) == [rn |-> runs[r], history |-> history, nextId |-> nextId, faults |-> faults]

Resume(r, st) ==
  /\ runs' = [runs EXCEPT ![r] = st.rn]
  /\ history' = st.history
  /\ nextId' = st.nextId
  /\ faults' = st.faults

\* run() up to its first await
StartRun(r) ==
  /\ runCount < MaxRuns
  /\ runCount' = runCount + 1
  /\ runs' = [runs EXCEPT ![r] = [IdleRun EXCEPT !.pc = "fetch", !.started = now, !.unit = 1]]

\* main(): await worker.run()
MainRun ==
  /\ phase = "boot"
  /\ runs["main"].pc = "idle"
  /\ StartRun("main")
  /\ UNCHANGED <<history, latest, running, phase, now, ohlcvCache, nextId, faults>>
  /\ UNCHANGED pureVars
  /\ UNCHANGED fnVars

\* the setInterval callback finds no run of its own in flight
IntervalTick ==
  /\ phase = "serving"
  /\ ~running
  /\ running' = TRUE
  /\ StartRun("tick")
  /\ UNCHANGED <<history, latest, phase, now, ohlcvCache, nextId, faults>>
  /\ UNCHANGED pureVars
  /\ UNCHANGED fnVars

\* the setInterval callback returns at once: its previous run is still in flight
IntervalTickSkipped ==
  /\ phase = "serving"
  /\ running
  /\ runCount < MaxRuns
  /\ runCount' = runCount + 1
  /\ UNCHANGED <<history, latest, runs, running, phase, now, ohlcvCache, nextId, faults>>
  /\ UNCHANGED pureVars
  /\ UNCHANGED fnVars

\* app.post('/refresh'): await worker.run()
PostRefresh ==
  /\ phase = "serving"
  /\ runs["refresh"].pc = "idle"
  /\ StartRun("refresh")
  /\ UNCHANGED <<history, latest, running, phase, now, ohlcvCache, nextId, faults>>
  /\ UNCHANGED pureVars
  /\ UNCHANGED fnVars

\* getModel and the HTF fetches are over (they touch no state of this model): the
\* loops over the units begin
FirstUnit(r) ==
  /\ runs[r].pc = "fetch"
  /\ \E st \in Continue(RunState(r), ohlcvCache) : Resume(r, st)
  /\ UNCHANGED <<latest, running, phase, now, ohlcvCache, runCount>>
  /\ UNCHANGED pureVars
  /\ UNCHANGED fnVars

\* a source answers: the cache is refreshed, the unit evaluated, run() goes on
UnitFetched(r) ==
  /\ runs[r].pc = "fetching"
  /\ \E data \in Feed(Units[runs[r].unit].timeframe, now) :
       LET cache == [ohlcvCache EXCEPT ![Units[runs[r].unit].timeframe] = << [ts |-> now, data |-> data] >>]
       IN /\ ohlcvCache' = cache
          /\ \E o \in EvalResults(RunState(r), data, FALSE) :
               \E st \in Continue(o, cache) : Resume(r, st)
  /\ UNCHANGED <<latest, running, phase, now, runCount>>
  /\ UNCHANGED pureVars
  /\ UNCHANGED fnVars

\* every source failed or is backed off: getOHLCV returns cached?.data ?? []
UnitFetchFailed(r) ==
  /\ runs[r].pc = "fetching"
  /\ faults < MaxFaults
  /\ LET data == IF runs[r].cached = <<>> THEN <<>> ELSE runs[r].cached[1].data
     IN \E o \in EvalResults([RunState(r) EXCEPT !.faults = @ + 1], data, TRUE) :
          \E st \in Continue(o, ohlcvCache) : Resume(r, st)
  /\ UNCHANGED <<latest, running, phase, now, ohlcvCache, runCount>>
  /\ UNCHANGED pureVars
  /\ UNCHANGED fnVars

Snapshot(rn, errors) ==
  [signals |-> rn.collected, lastRun |-> rn.started, runMs |-> now - rn.started,
   status |-> IF Len(errors) > 0 THEN "error" ELSE "ok",
   error |-> IF Len(errors) > 0 THEN << errors[1] >> ELSE <<>>]

\* variant: a failed write drops the cycle's signals from memory again
HistoryAfterPersist_Rollback(h, rn, ok) ==
  IF ok THEN h ELSE SelectSeq(h, LAMBDA s : \A k \in 1..Len(rn.collected) : rn.collected[k].id # s.id)

\* the in-memory history after persistState settled: untouched
HistoryAfterPersist(h, rn, ok) == h

\* persistState settled (ok or not): the snapshot is built, stored and returned, and
\* the caller continues: main() goes on to setInterval and listen, the interval
\* callback's finally clears running, the /refresh handler sends the snapshot
Finish(r) ==
  /\ runs[r].pc = "persisting"
  /\ \E ok \in { b \in BOOLEAN : b \/ faults < MaxFaults } :
       LET errors == IF ok THEN runs[r].errors ELSE Append(runs[r].errors, PersistError)
       IN /\ latest' = Snapshot(runs[r], errors)
          /\ history' = HistoryAfterPersist(history, runs[r], ok)
          /\ faults' = IF ok THEN faults ELSE faults + 1
  /\ runs' = [runs EXCEPT ![r] = IdleRun]
  /\ running' = IF r = "tick" THEN FALSE ELSE running
  /\ phase' = IF r = "main" THEN "serving" ELSE phase
  /\ UNCHANGED <<now, ohlcvCache, nextId, runCount>>
  /\ UNCHANGED pureVars
  /\ UNCHANGED fnVars

ClockTick ==
  /\ now < MaxClock * TickMs
  /\ now' = now + TickMs
  /\ UNCHANGED <<history, latest, runs, running, phase, ohlcvCache, nextId, runCount, faults>>
  /\ UNCHANGED pureVars
  /\ UNCHANGED fnVars

\* stored signals: 5m and 15m alternating, on bars 2, 1, 1, 2, ..., every third a short
StoredSignal(k) ==
  LET tf == IF k % 2 = 1 THEN "5m" ELSE "15m"
  IN [id |-> k, symbol |-> "BTCUSDT", timeframe |-> tf,
      side |-> IF k % 3 = 0 THEN "short" ELSE "long",
      entry |-> 5, stop |-> IF k % 3 = 0 THEN 6 ELSE 4, tp1 |-> IF k % 3 = 0 THEN 3 ELSE 7,
      rr |-> 2, score |-> 85, timestamp |-> (2 - ((k \div 2) % 2)) * timeframeSeconds(tf),
      outcome |-> "none", barsHeld |-> <<>>, outcomeAt |-> <<>>]

\* what loadStoredState may return: nothing, one signal, or a file written under a larger cap
StoredHistories ==
  { <<>>, << StoredSignal(1) >>, [k \in 1..(historyCap + 1) |-> StoredSignal(k)] }

\* new SignalWorker(config, metaModel, state) in main()
InitWorker ==
  /\ \E stored \in StoredHistories : history = SortByTimestamp(stored)
  /\ latest = [status |-> "unknown"]
  /\ runs = [r \in RunIds |-> IdleRun]
  /\ running = FALSE
  /\ phase = "boot"
  /\ now = 0
  /\ ohlcvCache = [tf \in {"5m", "15m"} |-> <<>>]
  /\ nextId = FirstNewId
  /\ runCount = 0
  /\ faults = 0
  /\ signal = <<>>
  /\ candles = <<>>
  /\ opts = <<>>
  /\ plan = PlanIdle
  /\ trade = NoTrade
  /\ FnNotCalled

NextWorker ==
  \/ MainRun
  \/ IntervalTick
  \/ IntervalTickSkipped
  \/ PostRefresh
  \/ \E r \in RunIds : FirstUnit(r)
  \/ \E r \in RunIds : UnitFetched(r)
  \/ \E r \in RunIds : UnitFetchFailed(r)
  \/ \E r \in RunIds : Finish(r)
  \/ ClockTick

SpecWorker == InitWorker /\ [][NextWorker]_vars

(***************************************************************************)
(* services/signalEngine                                                   *)
(* Prices and the ATR are in cents, gate percentages in hundredths of a    *)
(* percent, the gate's ratios and multipliers in hundredths, and a         *)
(* quotient is the exact rational num/den.                                 *)
(***************************************************************************)
\* [...history].reverse().find(pred): the index of the last match, 0 when none
LastIndexWhere(h, pred(_)) ==
  LET hits == { k \in 1..Len(h) : pred(h[k]) }
  IN IF hits = {} THEN 0 ELSE CHOOSE k \in hits : \A j \in hits : j <= k

rangeAllowsSide(side, rangePos, settings) ==
  IF rangePos = <<>> THEN TRUE
  ELSE IF side = "long" /\ rangePos[1] >= settings.rangeHigh THEN FALSE
  ELSE IF side = "short" /\ rangePos[1] <= settings.rangeLow THEN FALSE
  ELSE TRUE

scoreSignal(trendAligned, rr, stopDistancePct, adx) ==
  LET score == (IF trendAligned THEN 40 ELSE 0)
               + (IF rr.num >= 2 * rr.den THEN 15 ELSE 0)
               + (IF stopDistancePct.num < 40 * stopDistancePct.den THEN 15 ELSE 0)
               + (IF adx > 20 THEN 10 ELSE 0)
  IN Min(100, score + 20)

hasRejectionWick(candle, zoneType) ==
  LET range == candle.high - candle.low
      upperWick == candle.high - Max(candle.open, candle.close)
      lowerWick == Min(candle.open, candle.close) - candle.low
  IN IF range = 0 THEN FALSE
     ELSE IF zoneType = "demand" THEN lowerWick * 100 > 35 * range /\ candle.close > candle.open
     ELSE upperWick * 100 > 35 * range /\ candle.close < candle.open

buildStops(candle, zone, atr, stopAtrMult) ==
  LET entry == candle.close
      stop == IF zone.type = "demand" THEN zone.bottom - (atr * stopAtrMult) \div 100
              ELSE zone.top + (atr * stopAtrMult) \div 100
      distance == Abs(entry - stop)
      tp1 == IF zone.type = "demand" THEN entry + distance * 2 ELSE entry - distance * 2
  IN [entry |-> entry, stop |-> stop, tp1 |-> tp1,
      rr |-> [num |-> Abs(tp1 - entry), den |-> distance],
      stopDistancePct |-> [num |-> distance * 10000, den |-> entry]]

passesQualityGate(candidate, candle, atr, zone, in) ==
  LET gate == in.gate
      distance == Abs(candidate.entry - candidate.stop)
      k == LastIndexWhere(in.history, LAMBDA s : /\ s.symbol = candidate.symbol
                                                /\ s.timeframe = in.timeframe
                                                /\ s.side = candidate.side)
  IN /\ ~(distance * 10000 > gate.maxStopPct * candidate.entry)
     /\ ~(candidate.rr.num * 100 < gate.minRR * candidate.rr.den)
     /\ ~(atr * 10000 < gate.atrPctMin * candle.close \/ atr * 10000 > gate.atrPctMax * candle.close)
     /\ ~(gate.requireFreshZone /\ zone # <<>> /\ zone[1].fresh = FALSE)
     /\ (k # 0 => ~(candidate.timestamp - in.history[k].timestamp
                      < gate.cooldownBars * timeframeSeconds(in.timeframe)))
     /\ ~(candidate.score < gate.scoreMin)

\* trendDirection(htfCandles, emaPeriod) and the indicators of the last candle (atr,
\* adx, bandwidth, donchian, rangePos, the unmitigated zones) are inputs: in.ind

\* the body of zones.forEach in generateSignals: <<candidate>> or <<>>
ZoneCandidate(in, zone) ==
  LET last == in.candles[Len(in.candles)]
      ind == in.ind
      inZone == IF zone.type = "demand" THEN last.low <= zone.top /\ last.low >= zone.bottom
                ELSE last.high >= zone.bottom /\ last.high <= zone.top
      rejection == hasRejectionWick(last, zone.type)
      aligned == IF zone.type = "demand" THEN ind.trend = "long" ELSE ind.trend = "short"
      allowCounter == /\ ind.rangePos # <<>>
                      /\ \/ zone.type = "demand" /\ ind.rangePos[1] <= in.settings.rangeLow
                         \/ zone.type = "supply" /\ ind.rangePos[1] >= in.settings.rangeHigh
      side == IF zone.type = "demand" THEN "long" ELSE "short"
      st == buildStops(last, zone, ind.atr, in.gate.stopAtrMult)
      candidate == [symbol |-> in.symbol, timeframe |-> in.timeframe, side |-> side,
                    entry |-> st.entry, stop |-> st.stop, tp1 |-> st.tp1, rr |-> st.rr,
                    score |-> scoreSignal(aligned, st.rr, st.stopDistancePct, ind.adx),
                    timestamp |-> last.time, zoneType |-> zone.type]
  IN IF ~inZone THEN <<>>
     ELSE IF ~rejection \/ (~aligned /\ ~allowCounter) THEN <<>>
     ELSE IF ~rangeAllowsSide(side, ind.rangePos, in.settings) THEN <<>>
     ELSE IF passesQualityGate(candidate, last, ind.atr, << zone >>, in) THEN << candidate >>
     ELSE <<>>

RECURSIVE ZoneCandidates(_, _)
ZoneCandidates(in, k) ==
  IF k > Len(in.ind.zones) THEN <<>>
  ELSE ZoneCandidate(in, in.ind.zones[k]) \o ZoneCandidates(in, k + 1)

\* the squeeze block of generateSignals: <<candidate>> or <<>>
SqueezeCandidate(in) ==
  LET last == in.candles[Len(in.candles)]
      ind == in.ind
      dc == ind.donchian
      bandOk == ind.bandwidth < in.settings.minBandwidth * 100
      breakoutLong == bandOk /\ last.close > dc.upper
      breakoutShort == bandOk /\ last.close < dc.lower
      side == IF breakoutLong THEN "long" ELSE "short"
      stop == IF side = "long" THEN Min(last.low, dc.mid) - (ind.atr * in.gate.stopAtrMult) \div 100
              ELSE Max(last.high, dc.mid) + (ind.atr * in.gate.stopAtrMult) \div 100
      entry == last.close
      distance == Abs(entry - stop)
      tp1 == IF side = "long" THEN entry + distance * 2 ELSE entry - distance * 2
      candidate == [symbol |-> in.symbol, timeframe |-> in.timeframe, side |-> side,
                    entry |-> entry, stop |-> stop, tp1 |-> tp1, rr |-> [num |-> 2, den |-> 1],
                    score |-> scoreSignal(ind.trend = side, [num |-> 2, den |-> 1],
                                          [num |-> distance * 10000, den |-> entry], ind.adx),
                    timestamp |-> last.time,
                    zoneType |-> IF breakoutLong THEN "demand" ELSE "supply"]
  IN IF ~in.settings.enableSqueeze THEN <<>>
     ELSE IF ~(breakoutLong \/ breakoutShort) THEN <<>>
     ELSE IF ~rangeAllowsSide(side, ind.rangePos, in.settings) THEN <<>>
     ELSE IF passesQualityGate(candidate, last, ind.atr, <<>>, in) THEN << candidate >>
     ELSE <<>>

\* variant: the cooldown is applied to the last signal of the same side only
generateTrendSignal_NoAnySideCooldown(in) ==
  LET ind == in.ind
      gate == in.gate
      last == in.candles[Len(in.candles)]
      firstTime == in.candles[1].time
      lastTime == last.time
      atr == ind.atr
      side == IF ind.trend = "long" THEN "long" ELSE "short"
      stop == IF side = "long" THEN last.close - (atr * 220) \div 100 ELSE last.close + (atr * 220) \div 100
      tp1 == IF side = "long" THEN last.close + (atr * 440) \div 100 ELSE last.close - (atr * 440) \div 100
      entry == last.close
      rr == [num |-> Abs(tp1 - entry), den |-> IF entry - stop = 0 THEN 1 ELSE Abs(entry - stop)]
      distance == Abs(entry - stop)
      anyIdx == LastIndexWhere(in.history, LAMBDA s : /\ s.symbol = in.symbol
                                                      /\ s.timeframe = in.timeframe
                                                      /\ s.timestamp >= firstTime
                                                      /\ s.timestamp <= lastTime)
      lastAny == in.history[anyIdx]
      sinceAny == last.time - lastAny.timestamp
      cooldown == gate.cooldownBars * timeframeSeconds(in.timeframe)
      candidate == [symbol |-> in.symbol, timeframe |-> in.timeframe, side |-> side,
                    entry |-> entry, stop |-> stop, tp1 |-> tp1, rr |-> rr,
                    score |-> scoreSignal(TRUE, rr, [num |-> distance * 10000, den |-> entry], ind.adx),
                    timestamp |-> last.time,
                    zoneType |-> IF side = "long" THEN "demand" ELSE "supply"]
      sameIdx == LastIndexWhere(in.history, LAMBDA s : /\ s.symbol = in.symbol
                                                       /\ s.side = side
                                                       /\ s.timeframe = in.timeframe)
      gatesOk == /\ distance * 10000 <= gate.maxStopPct * entry
                 /\ rr.num * 100 >= gate.minRR * rr.den
                 /\ atr * 10000 >= gate.atrPctMin * entry
                 /\ atr * 10000 <= gate.atrPctMax * entry
  IN IF ind.trend = "neutral" THEN <<>>
     ELSE IF ind.adx < 12 THEN <<>>
     ELSE IF ~rangeAllowsSide(side, ind.rangePos, in.settings) THEN <<>>
     ELSE IF /\ anyIdx # 0
             /\ lastAny.side = side
             /\ \/ evaluateSignal(lastAny, in.candles, [maxHoldBars |-> 60, executionCosts |-> <<>>]).outcome = "open"
                \/ sinceAny < cooldown
     THEN <<>>
     ELSE IF sameIdx # 0 /\ candidate.timestamp - in.history[sameIdx].timestamp < cooldown THEN <<>>
     ELSE IF ~gatesOk THEN <<>>
     ELSE dedupeNewSignals(<< candidate >>, in.history)

generateTrendSignal(in) ==
  LET ind == in.ind
      gate == in.gate
      last == in.candles[Len(in.candles)]
      firstTime == in.candles[1].time
      lastTime == last.time
      atr == ind.atr
      side == IF ind.trend = "long" THEN "long" ELSE "short"
      stop == IF side = "long" THEN last.close - (atr * 220) \div 100 ELSE last.close + (atr * 220) \div 100
      tp1 == IF side = "long" THEN last.close + (atr * 440) \div 100 ELSE last.close - (atr * 440) \div 100
      entry == last.close
      rr == [num |-> Abs(tp1 - entry), den |-> IF entry - stop = 0 THEN 1 ELSE Abs(entry - stop)]
      distance == Abs(entry - stop)
      anyIdx == LastIndexWhere(in.history, LAMBDA s : /\ s.symbol = in.symbol
                                                      /\ s.timeframe = in.timeframe
                                                      /\ s.timestamp >= firstTime
                                                      /\ s.timestamp <= lastTime)
      lastAny == in.history[anyIdx]
      sinceAny == last.time - lastAny.timestamp
      cooldown == gate.cooldownBars * timeframeSeconds(in.timeframe)
      candidate == [symbol |-> in.symbol, timeframe |-> in.timeframe, side |-> side,
                    entry |-> entry, stop |-> stop, tp1 |-> tp1, rr |-> rr,
                    score |-> scoreSignal(TRUE, rr, [num |-> distance * 10000, den |-> entry], ind.adx),
                    timestamp |-> last.time,
                    zoneType |-> IF side = "long" THEN "demand" ELSE "supply"]
      sameIdx == LastIndexWhere(in.history, LAMBDA s : /\ s.symbol = in.symbol
                                                       /\ s.side = side
                                                       /\ s.timeframe = in.timeframe)
      gatesOk == /\ distance * 10000 <= gate.maxStopPct * entry
                 /\ rr.num * 100 >= gate.minRR * rr.den
                 /\ atr * 10000 >= gate.atrPctMin * entry
                 /\ atr * 10000 <= gate.atrPctMax * entry
  IN IF ind.trend = "neutral" THEN <<>>
     ELSE IF ind.adx < 12 THEN <<>>
     ELSE IF ~rangeAllowsSide(side, ind.rangePos, in.settings) THEN <<>>
     ELSE IF /\ anyIdx # 0
             /\ lastAny.side = side
             /\ \/ evaluateSignal(lastAny, in.candles, [maxHoldBars |-> 60, executionCosts |-> <<>>]).outcome = "open"
                \/ sinceAny < cooldown
     THEN <<>>
     ELSE IF anyIdx # 0 /\ sinceAny < cooldown THEN <<>>
     ELSE IF sameIdx # 0 /\ candidate.timestamp - in.history[sameIdx].timestamp < cooldown THEN <<>>
     ELSE IF ~gatesOk THEN <<>>
     ELSE dedupeNewSignals(<< candidate >>, in.history)

signalEngine_generateSignals(in) ==
  IF Len(in.candles) < in.settings.emaPeriod + 5 THEN <<>>
  ELSE IF in.trendMode THEN generateTrendSignal(in)
  ELSE dedupeNewSignals(ZoneCandidates(in, 1) \o SqueezeCandidate(in), in.history)

\* the tradePlan and performance arguments are not part of the other services' calls
PureNotCalled ==
  /\ signal = <<>>
  /\ candles = <<>>
  /\ opts = <<>>
  /\ plan = PlanIdle
  /\ trade = NoTrade

\* the gates of gateForMode: default, aggressive, conservative
GenGates ==
  { [maxStopPct |-> 80, minRR |-> 140, atrPctMin |-> 5, atrPctMax |-> 160,
     requireFreshZone |-> FALSE, cooldownBars |-> 4, scoreMin |-> 80, stopAtrMult |-> 110],
    [maxStopPct |-> 100, minRR |-> 120, atrPctMin |-> 4, atrPctMax |-> 200,
     requireFreshZone |-> FALSE, cooldownBars |-> 2, scoreMin |-> 70, stopAtrMult |-> 110],
    [maxStopPct |-> 50, minRR |-> 200, atrPctMin |-> 8, atrPctMax |-> 100,
     requireFreshZone |-> TRUE, cooldownBars |-> 10, scoreMin |-> 90, stopAtrMult |-> 110] }

\* settings with a short EMA period, so that six candles are enough; minBandwidth 0.06
GenSettings ==
  [emaPeriod |-> 1, rangeLow |-> 20, rangeHigh |-> 80, enableSqueeze |-> TRUE, minBandwidth |-> 6]

\* the index of the last candle: it opens at GenLastBar * timeframeSeconds
GenLastBar == 80

\* the last candle: a rejection off a demand zone, a rejection off a supply zone, a sell-off
GenLastShapes ==
  { [open |-> 99950, low |-> 99800, high |-> 100050, close |-> 100000],
    [open |-> 100050, low |-> 99950, high |-> 100200, close |-> 100000],
    [open |-> 100000, low |-> 99500, high |-> 100000, close |-> 99600] }

\* n candles ending at GenLastBar: quiet at 1000.00, then the last shape
GenCandles(tf, n, sh) ==
  [k \in 1..n |->
     LET bar == IF k = n THEN sh ELSE [open |-> 100000, low |-> 100000, high |-> 100000, close |-> 100000]
     IN [time |-> (GenLastBar - n + k) * timeframeSeconds(tf),
         open |-> bar.open, low |-> bar.low, high |-> bar.high, close |-> bar.close]]

GenZones ==
  { <<>>,
    << [type |-> "demand", bottom |-> 99700, top |-> 99900, fresh |-> FALSE] >>,
    << [type |-> "supply", bottom |-> 100100, top |-> 100300, fresh |-> FALSE] >>,
    << [type |-> "demand", bottom |-> 99700, top |-> 99900, fresh |-> FALSE],
       [type |-> "demand", bottom |-> 99750, top |-> 99850, fresh |-> FALSE] >> }

\* bandwidth and Donchian band of the last candle; the band's window ends with the last
\* candle, whose high and low it therefore contains
GenSqueezes ==
  { [bandwidth |-> 3, donchian |-> [upper |-> 100200, lower |-> 99500, mid |-> 99850]],
    [bandwidth |-> 3, donchian |-> [upper |-> 100300, lower |-> 99800, mid |-> 100050]],
    [bandwidth |-> 9, donchian |-> [upper |-> 100200, lower |-> 99500, mid |-> 99850]] }

\* a history signal age bars before the last candle
GenHistSignal(tf, side, age) ==
  [symbol |-> "BTCUSDT", timeframe |-> tf, side |-> side, entry |-> 100000,
   stop |-> IF side = "long" THEN 99560 ELSE 100440,
   tp1 |-> IF side = "long" THEN 100880 ELSE 99120,
   rr |-> 2, score |-> 85, timestamp |-> (GenLastBar - age) * timeframeSeconds(tf)]

\* the age of a history signal older than the candle window: the callers pass
\* DEFAULT_STRATEGY, whose emaPeriod 200 makes the window at least 205 candles long
GenOldAge == 70

\* histories as (side, age) lists: empty, one signal, or two with the older one last or first
GenHistories ==
  LET sigs == { [side |-> side, age |-> age] : side \in {"long", "short"}, age \in {2, 5, GenOldAge} }
  IN { <<>> } \cup { << x >> : x \in sigs }
     \cup { << [side |-> "long", age |-> 2], [side |-> sd, age |-> GenOldAge] >> : sd \in {"long", "short"} }
     \cup { << [side |-> "short", age |-> 5], [side |-> sd, age |-> 2] >> : sd \in {"long", "short"} }

GenInput(tf, n, sh, g, tm, ind, h) ==
  [symbol |-> "BTCUSDT", timeframe |-> tf, candles |-> GenCandles(tf, n, sh),
   history |-> [k \in 1..Len(h) |-> GenHistSignal(tf, h[k].side, h[k].age)],
   gate |-> g, settings |-> GenSettings, trendMode |-> tm, ind |-> ind]

\* calls in trend mode: zones and bands are not read
GenTrendInputs ==
  { GenInput(tf, n, sh, g, TRUE,
             [trend |-> tr, atr |-> atr, adx |-> adx, rangePos |-> rp, zones |-> <<>>,
              bandwidth |-> 9, donchian |-> [upper |-> 99900, lower |-> 99500, mid |-> 99700]], h)
      : tf \in {"1m", "5m"}, n \in {5, 6}, sh \in GenLastShapes, g \in GenGates,
        tr \in {"long", "short", "neutral"}, atr \in {100, 200, 400, 2000},
        adx \in {10, 15}, rp \in { <<>>, << 90 >> }, h \in GenHistories }

\* calls with the zone and squeeze strategies
GenZoneInputs ==
  { GenInput(tf, 6, sh, g, FALSE,
             [trend |-> tr, atr |-> atr, adx |-> adx, rangePos |-> rp, zones |-> z,
              bandwidth |-> sq.bandwidth, donchian |-> sq.donchian], h)
      : tf \in {"1m", "5m"}, sh \in { x \in GenLastShapes : x.close = 100000 }, g \in GenGates,
        tr \in {"long", "short", "neutral"}, atr \in {100, 200, 2000},
        adx \in {15, 25}, rp \in { <<>>, << 90 >> }, z \in GenZones, sq \in GenSqueezes,
        h \in { x \in GenHistories : Len(x) = 0 \/ x[Len(x)].age # 2 } }

InitGen ==
  /\ args \in GenTrendInputs \cup GenZoneInputs
  /\ ret = <<>>
  /\ PureNotCalled
  /\ WorkerNotStarted

GenerateSignals ==
  /\ ret = <<>>
  /\ ret' = << signalEngine_generateSignals(args) >>
  /\ UNCHANGED <<args>>
  /\ UNCHANGED pureVars
  /\ UNCHANGED workerVars

NextGen == GenerateSignals

SpecGen == InitGen /\ [][NextGen]_vars

(***************************************************************************)
(* services/autoMute                                                       *)
(***************************************************************************)
\* variant: the gate mode of a signal is not compared
InScope_AnyGateMode(s, p) ==
  /\ s.symbol = p.symbol
  /\ s.timeframe = p.timeframe
  /\ (IF s.dataSource = <<>> THEN "futures" ELSE s.dataSource[1]) = p.dataSource

\* the three filters on signals: s.dataSource ?? 'futures', s.gateMode ?? 'default'
InScope(s, p) ==
  /\ s.symbol = p.symbol
  /\ s.timeframe = p.timeframe
  /\ (IF s.dataSource = <<>> THEN "futures" ELSE s.dataSource[1]) = p.dataSource
  /\ (IF s.gateMode = <<>> THEN "default" ELSE s.gateMode[1]) = p.gateMode

\* list.slice(-n): the last n elements, and the whole list for n = 0
SliceNeg(list, n) == IF n = 0 THEN list ELSE SliceLast(list, n)

\* variant: one trade fewer than required is enough
TooFewTrades_OffByOne(n, minTradesToDecide) == n + 1 < minTradesToDecide

\* evaluated.length < minTradesToDecide
TooFewTrades(n, minTradesToDecide) == n < minTradesToDecide

\* evaluated.reduce((acc, t) => acc + t.r, 0): the sum as a rational
RECURSIVE SumR(_, _)
SumR(trades, k) ==
  IF k = 0 THEN [num |-> 0, den |-> 1]
  ELSE LET acc == SumR(trades, k - 1)
           r == trades[k].r
       IN IF acc.num = 0 THEN r
          ELSE IF acc.den = r.den THEN [num |-> acc.num + r.num, den |-> r.den]
          ELSE [num |-> acc.num * r.den + r.num * acc.den, den |-> acc.den * r.den]

computeAutoMuteDecision(p) ==
  LET scoped == SortByTimestamp(SelectSeq(p.signals, LAMBDA s : InScope(s, p)))
      trades == [k \in 1..Len(scoped) |->
                   evaluateSignal(scoped[k], p.candles,
                                  [maxHoldBars |-> p.maxHoldBars, executionCosts |-> p.executionCosts])]
      evaluated == SliceNeg(SelectSeq(trades, LAMBDA t : t.outcome # "open"), p.windowTrades)
      sum == SumR(evaluated, Len(evaluated))
  IN IF TooFewTrades(Len(evaluated), p.minTradesToDecide)
     THEN [muted |-> FALSE, evaluatedTrades |-> Len(evaluated), expectancyR |-> <<>>]
     ELSE [muted |-> sum.num < 0, evaluatedTrades |-> Len(evaluated),
           expectancyR |-> << [num |-> sum.num, den |-> sum.den * Len(evaluated)] >>]

\* candles 1..5 around entry 5: quiet, a dip to 4, a rally to 7, quiet, quiet; or the
\* rally first and the dip second
MuteCandles ==
  { [k \in 1..5 |-> [time |-> k, low |-> sh[k].low, high |-> sh[k].high, close |-> sh[k].close]]
      : sh \in { << [low |-> 5, high |-> 5, close |-> 5], [low |-> 4, high |-> 5, close |-> 4],
                    [low |-> 5, high |-> 7, close |-> 7], [low |-> 5, high |-> 5, close |-> 5],
                    [low |-> 5, high |-> 5, close |-> 5] >>,
                 << [low |-> 5, high |-> 5, close |-> 5], [low |-> 5, high |-> 7, close |-> 7],
                    [low |-> 4, high |-> 5, close |-> 4], [low |-> 5, high |-> 5, close |-> 5],
                    [low |-> 5, high |-> 5, close |-> 5] >> } }

MuteSignal(sym, gm, ds, side, ts) ==
  [symbol |-> sym, timeframe |-> "5m", dataSource |-> ds, gateMode |-> gm, side |-> side,
   entry |-> 5, stop |-> IF side = "long" THEN 4 ELSE 6, tp1 |-> IF side = "long" THEN 7 ELSE 3,
   rr |-> 2, timestamp |-> ts]

\* signals of the requested stream (with or without the optional fields) and of others
MuteSignals ==
  { MuteSignal("BTCUSDT", << "default" >>, << "futures" >>, side, ts) : side \in {"long", "short"}, ts \in 1..4 }
  \cup { MuteSignal("BTCUSDT", <<>>, <<>>, "long", 1),
         MuteSignal("ETHUSDT", << "default" >>, << "futures" >>, "long", 1),
         MuteSignal("BTCUSDT", << "aggressive" >>, << "futures" >>, "long", 1),
         MuteSignal("BTCUSDT", << "default" >>, << "spot" >>, "long", 1) }

MaxSignals == 3

MuteInputs ==
  { [symbol |-> "BTCUSDT", timeframe |-> "5m", dataSource |-> "futures", gateMode |-> "default",
     signals |-> sigs, candles |-> cs, maxHoldBars |-> 1, windowTrades |-> w,
     minTradesToDecide |-> m, executionCosts |-> ec]
      : sigs \in SeqsUpTo(MuteSignals, MaxSignals), cs \in MuteCandles,
        w \in 0..MaxSignals, m \in 1..MaxSignals,
        ec \in { <<>>, << [feeBps |-> 2, slippageBps |-> 1] >> } }

InitMute ==
  /\ args \in MuteInputs
  /\ ret = <<>>
  /\ PureNotCalled
  /\ WorkerNotStarted

ComputeAutoMuteDecision ==
  /\ ret = <<>>
  /\ ret' = << computeAutoMuteDecision(args) >>
  /\ UNCHANGED <<args>>
  /\ UNCHANGED pureVars
  /\ UNCHANGED workerVars

NextMute == ComputeAutoMuteDecision

SpecMute == InitMute /\ [][NextMute]_vars

(***************************************************************************)
(* dynamicGate.ts: buildDynamicGate.  Numbers are exact fractions           *)
(* [num, den] in lowest terms with den > 0; percentages are in percent.     *)
(***************************************************************************)
RECURSIVE GCD(_, _)
GCD(a, b) == IF b = 0 THEN a ELSE GCD(b, a % b)

Frac(n, d) ==
  LET g == GCD(Abs(n), Abs(d))
      sg == IF d < 0 THEN -1 ELSE 1
  IN [num |-> sg * (n \div g), den |-> sg * (d \div g)]

FMul(a, b) == Frac(a.num * b.num, a.den * b.den)
FDiv(a, b) == Frac(a.num * b.den, a.den * b.num)
FAdd(a, b) == Frac(a.num * b.den + b.num * a.den, a.den * b.den)
FLess(a, b) == a.num * b.den < b.num * a.den
FEq(a, b) == a.num * b.den = b.num * a.den
FMin(a, b) == IF FLess(b, a) THEN b ELSE a
FMax(a, b) == IF FLess(a, b) THEN b ELSE a

\* Math.min(Math.max(value, min), max); every value here is finite
clamp(value, lo, hi) == FMin(FMax(value, lo), hi)

\* the true range of bar i (indices from 1)
TrueRange(cs, i) ==
  LET prevClose == IF i = 1 THEN cs[i].close ELSE cs[i - 1].close
  IN Max(cs[i].high - cs[i].low,
         Max(Abs(cs[i].high - prevClose), Abs(cs[i].low - prevClose)))

RECURSIVE SumTrueRange(_, _, _)
SumTrueRange(cs, from, to) ==
  IF to < from THEN 0 ELSE SumTrueRange(cs, from, to - 1) + TrueRange(cs, to)

\* atr(candles, period)[i]: << >> is NaN
RECURSIVE atr(_, _, _)
atr(cs, period, i) ==
  IF i - 1 < period THEN << >>
  ELSE IF i - 1 = period THEN << Frac(SumTrueRange(cs, 2, period + 1), period) >>
  ELSE << FDiv(FAdd(FMul(atr(cs, period, i - 1)[1], Frac(period - 1, 1)),
                    Frac(TrueRange(cs, i), 1)),
               Frac(period, 1)) >>

\* the ATR% of every bar that has one
RECURSIVE atrPctSeries(_, _, _)
atrPctSeries(cs, period, n) ==
  IF n = 0 THEN << >>
  ELSE LET a == atr(cs, period, n)
           rest == atrPctSeries(cs, period, n - 1)
       IN IF a = << >> \/ cs[n].close <= 0 THEN rest
          ELSE Append(rest, FMul(FDiv(a[1], Frac(cs[n].close, 1)), Frac(100, 1)))

\* values.sort((a, b) => a - b) by insertion
RECURSIVE SortFracs(_)
SortFracs(values) ==
  IF values = << >> THEN << >>
  ELSE LET rest == SortFracs(Tail(values))
           v == Head(values)
           k == Cardinality({ j \in 1..Len(rest) : FLess(rest[j], v) })
       IN SubSeq(rest, 1, k) \o << v >> \o SubSeq(rest, k + 1, Len(rest))

\* median of a non-empty list
median(values) ==
  LET sorted == SortFracs(values)
      mid == Len(sorted) \div 2
  IN IF Len(sorted) % 2 = 0
     THEN FDiv(FAdd(sorted[mid], sorted[mid + 1]), Frac(2, 1))
     ELSE sorted[mid + 1]

minRRFactor_Strict(ratio) ==
  IF FLess(Frac(1, 1), ratio) THEN Frac(105, 100) ELSE Frac(95, 100)

\* ratio >= 1 ? 1.05 : 0.95
minRRFactor(ratio) ==
  IF ~FLess(ratio, Frac(1, 1)) THEN Frac(105, 100) ELSE Frac(95, 100)

buildDynamicGate(p) ==
  LET base == p.baseGate
      unchanged == [gate |-> base, info |-> << >>]
      series == atrPctSeries(p.candles, p.atrPeriod, Len(p.candles))
      recent == SliceNeg(series, p.lookback)
      atrMedian == median(recent)
      baseMid == FDiv(FAdd(base.atrPctMin, base.atrPctMax), Frac(2, 1))
      ratio == clamp(FDiv(atrMedian, baseMid), Frac(6, 10), Frac(16, 10))
      atrPctMin == clamp(FMul(base.atrPctMin, ratio), Frac(1, 100), Frac(10, 1))
      atrPctMax0 == clamp(FMul(base.atrPctMax, ratio), Frac(2, 100), Frac(20, 1))
      atrPctMax == IF FLess(atrPctMax0, atrPctMin) THEN FMul(atrPctMin, Frac(11, 10))
                   ELSE atrPctMax0
      maxStopPct == clamp(FMul(base.maxStopPct, ratio),
                          FMul(base.maxStopPct, Frac(6, 10)), FMul(base.maxStopPct, Frac(2, 1)))
      stopAtrMult == clamp(FMul(base.stopAtrMult, ratio),
                           FMul(base.stopAtrMult, Frac(6, 10)), FMul(base.stopAtrMult, Frac(2, 1)))
      minRR == clamp(FMul(base.minRR, minRRFactor(ratio)),
                     FMul(base.minRR, Frac(8, 10)), FMul(base.minRR, Frac(12, 10)))
  IN IF ~p.enabled THEN unchanged
     ELSE IF Len(p.candles) < Min(80, p.lookback) THEN unchanged
     ELSE IF Len(recent) < Min(50, p.lookback \div 2) THEN unchanged
     ELSE IF ~FLess(Frac(0, 1), baseMid) THEN unchanged
     ELSE [gate |-> [base EXCEPT !.atrPctMin = atrPctMin, !.atrPctMax = atrPctMax,
                                 !.maxStopPct = maxStopPct, !.stopAtrMult = stopAtrMult,
                                 !.minRR = minRR],
           info |-> << [atrMedianPct |-> atrMedian, atrCurrentPct |-> recent[Len(recent)],
                        ratio |-> ratio, lookback |-> p.lookback] >>]

\* a gate of GenGates with its thresholds as fractions
DynGate(g) ==
  [g EXCEPT !.maxStopPct = Frac(g.maxStopPct, 100), !.minRR = Frac(g.minRR, 100),
            !.atrPctMin = Frac(g.atrPctMin, 100), !.atrPctMax = Frac(g.atrPctMax, 100),
            !.stopAtrMult = Frac(g.stopAtrMult, 100)]

\* the three gate modes, and a user-set gate with no lower ATR% bound
DynGates ==
  { DynGate(g) : g \in GenGates }
    \cup { DynGate([maxStopPct |-> 100, minRR |-> 120, atrPctMin |-> 0, atrPctMax |-> 204,
                    requireFreshZone |-> FALSE, cooldownBars |-> 2, scoreMin |-> 70,
                    stopAtrMult |-> 110]) }

\* bars closing at 200.00 whose range makes ATR% 0.54, 0.825, 1.02 (the gates'
\* midpoints), 0.3 or 2.0
DynRanges == { 108, 165, 204, 60, 400 }

DynBar(x) == [open |-> 20000, high |-> 20000 + x, low |-> 20000, close |-> 20000]

MaxDynBars == 4

DynCandles ==
  UNION { [1..n -> { DynBar(x) : x \in DynRanges }] : n \in 1..MaxDynBars }

MaxLookback == 3

DynInputs ==
  { [candles |-> cs, baseGate |-> g, atrPeriod |-> ap, lookback |-> lb, enabled |-> en]
      : cs \in DynCandles, g \in DynGates, ap \in 1..2, lb \in 2..MaxLookback,
        en \in BOOLEAN }

InitDyn ==
  /\ PureNotCalled /\ WorkerNotStarted
  /\ args \in DynInputs
  /\ ret = << >>

BuildDynamicGate ==
  /\ ret = << >>
  /\ ret' = << buildDynamicGate(args) >>
  /\ UNCHANGED << args, pureVars, workerVars >>

NextDyn == BuildDynamicGate

SpecDyn == InitDyn /\ [][NextDyn]_vars

(***************************************************************************)
(* performance.ts: summarizePerformance.  Sums and ratios are exact         *)
(* fractions; << >> is null.                                                *)
(***************************************************************************)
Zero == Frac(0, 1)

FSub(a, b) == FAdd(a, Frac(-b.num, b.den))

FAbs(a) == Frac(Abs(a.num), a.den)

SummaryStart ==
  [tp1 |-> 0, stop |-> 0, timeout |-> 0, open |-> 0, grossProfit |-> Zero, grossLoss |-> Zero,
   sumR |-> Zero, sumBars |-> 0, wins |-> 0, winsR |-> Zero, losses |-> 0, lossesR |-> Zero,
   equity |-> Zero, peak |-> Zero, maxDd |-> Zero]

Counted(acc, t) == [acc EXCEPT ![t.outcome] = @ + 1]

SummaryStep_CountOpen(acc, t) ==
  LET r == Frac(t.r.num, t.r.den)
      equity == FAdd(acc.equity, r)
      peak == IF FLess(acc.peak, equity) THEN equity ELSE acc.peak
      dd == FSub(peak, equity)
      a == [Counted(acc, t) EXCEPT !.sumR = FAdd(@, r), !.sumBars = @ + t.barsHeld,
                                   !.equity = equity, !.peak = peak,
                                   !.maxDd = IF FLess(@, dd) THEN dd ELSE @]
  IN IF FLess(Zero, r)
     THEN [a EXCEPT !.grossProfit = FAdd(@, r), !.wins = @ + 1, !.winsR = FAdd(@, r)]
     ELSE IF FLess(r, Zero)
     THEN [a EXCEPT !.grossLoss = FAdd(@, FAbs(r)), !.losses = @ + 1, !.lossesR = FAdd(@, r)]
     ELSE a

\* one pass of the loop over the evaluated trades
SummaryStep(acc, t) ==
  IF t.outcome = "open" THEN Counted(acc, t)
  ELSE LET r == Frac(t.r.num, t.r.den)
           equity == FAdd(acc.equity, r)
           peak == IF FLess(acc.peak, equity) THEN equity ELSE acc.peak
           dd == FSub(peak, equity)
           a == [Counted(acc, t) EXCEPT !.sumR = FAdd(@, r), !.sumBars = @ + t.barsHeld,
                                        !.equity = equity, !.peak = peak,
                                        !.maxDd = IF FLess(@, dd) THEN dd ELSE @]
       IN IF FLess(Zero, r)
          THEN [a EXCEPT !.grossProfit = FAdd(@, r), !.wins = @ + 1, !.winsR = FAdd(@, r)]
          ELSE IF FLess(r, Zero)
          THEN [a EXCEPT !.grossLoss = FAdd(@, FAbs(r)), !.losses = @ + 1,
                         !.lossesR = FAdd(@, r)]
          ELSE a

RECURSIVE SummaryLoop(_, _)
SummaryLoop(evaluated, k) ==
  IF k = 0 THEN SummaryStart ELSE SummaryStep(SummaryLoop(evaluated, k - 1), evaluated[k])

\* n ? x / n : null
OverCount(x, n) == IF n # 0 THEN << FDiv(x, Frac(n, 1)) >> ELSE << >>

summarizePerformance(p) ==
  LET sorted == SortByTimestamp(p.signals)
      evaluated == [k \in 1..Len(sorted) |-> evaluateSignal(sorted[k], p.candles, p.opts)]
      acc == SummaryLoop(evaluated, Len(evaluated))
      evaluatedTrades == Len(evaluated) - acc.open
  IN [totalSignals |-> Len(p.signals),
      evaluatedTrades |-> evaluatedTrades,
      tp1 |-> acc.tp1, stop |-> acc.stop, timeout |-> acc.timeout, open |-> acc.open,
      winRateTp1 |-> OverCount(Frac(acc.tp1, 1), evaluatedTrades),
      expectancyR |-> OverCount(acc.sumR, evaluatedTrades),
      avgWinR |-> OverCount(acc.winsR, acc.wins),
      avgLossR |-> OverCount(acc.lossesR, acc.losses),
      profitFactor |-> IF FLess(Zero, acc.grossLoss)
                       THEN << FDiv(acc.grossProfit, acc.grossLoss) >> ELSE << >>,
      maxDrawdownR |-> IF evaluatedTrades # 0 THEN << acc.maxDd >> ELSE << >>,
      avgBarsHeld |-> OverCount(Frac(acc.sumBars, 1), evaluatedTrades)]

\* signals at entry 5 with risk 1 and rr 2, on any bar of MuteCandles
SummarySignals ==
  { [side |-> side, entry |-> 5, stop |-> IF side = "long" THEN 4 ELSE 6,
     tp1 |-> IF side = "long" THEN 7 ELSE 3, rr |-> 2, timestamp |-> ts]
      : side \in { "long", "short" }, ts \in 1..5 }

MaxSummarySignals == 3

SummaryInputs ==
  { [signals |-> sigs, candles |-> cs, opts |-> [maxHoldBars |-> mh, executionCosts |-> ec]]
      : sigs \in SeqsUpTo(SummarySignals, MaxSummarySignals), cs \in MuteCandles,
        mh \in { 1, 3 }, ec \in { << >>, << [feeBps |-> 2, slippageBps |-> 1] >> } }

InitSummary ==
  /\ PureNotCalled /\ WorkerNotStarted
  /\ args \in SummaryInputs
  /\ ret = << >>

SummarizePerformance ==
  /\ ret = << >>
  /\ ret' = << summarizePerformance(args) >>
  /\ UNCHANGED << args, pureVars, workerVars >>

NextSummary == SummarizePerformance

SpecSummary == InitSummary /\ [][NextSummary]_vars

(***************************************************************************)
(* metaModel.ts: validateMetaModel.  A JSON value is a record with a kind:  *)
(* "undefined" (the key is absent), "null", "string" or "number" (with      *)
(* their value) and "array" (with the list of its items).                   *)
(***************************************************************************)
Undefined == [kind |-> "undefined"]
JNull == [kind |-> "null"]
JStr(v) == [kind |-> "string", str |-> v]
JNum(v) == [kind |-> "number", num |-> v]
JArr(v) == [kind |-> "array", items |-> v]

\* typeof x === 'number' && Number.isFinite(x)
isFiniteNumber(x) == x.kind = "number"

IsStringArray(x) ==
  x.kind = "array" /\ \A k \in 1..Len(x.items) : x.items[k].kind = "string"

IsNumberArray(x) ==
  x.kind = "array" /\ \A k \in 1..Len(x.items) : isFiniteNumber(x.items[k])

\* x.length of an array or a string
LengthOf(x) ==
  IF x.kind = "array" THEN Len(x.items)
  ELSE IF x.kind = "string" THEN Len(x.str)
  ELSE -1

\* the truth value of x in a condition
Truthy(x) ==
  CASE x.kind \in { "undefined", "null" } -> FALSE
    [] x.kind = "string" -> x.str # ""
    [] x.kind = "number" -> x.num # 0
    [] OTHER -> TRUE

KnownVersion == "fsd-meta-v1"

OptionalStatsInvalid(x, features) ==
  Truthy(x) /\ (~(x.kind = "array") \/ Len(x.items) # Len(features.items)
                \/ ~IsNumberArray(x))

Rejected(msg) == [ok |-> FALSE, error |-> msg]

validateMetaModel(input) ==
  IF input.kind # "object" THEN Rejected("Invalid JSON object.")
  ELSE IF input.version # JStr(KnownVersion) THEN Rejected("Unsupported model version.")
  ELSE IF ~IsStringArray(input.features) THEN Rejected("features must be string[].")
  ELSE IF ~IsNumberArray(input.weights) THEN Rejected("weights must be number[].")
  ELSE IF ~isFiniteNumber(input.bias) THEN Rejected("bias must be a number.")
  ELSE IF Len(input.weights.items) # Len(input.features.items)
    THEN Rejected("weights length must match features length.")
  ELSE IF OptionalStatsInvalid(input.means, input.features)
    THEN Rejected("means must be number[] with same length as features.")
  ELSE IF OptionalStatsInvalid(input.stds, input.features)
    THEN Rejected("stds must be number[] with same length as features.")
  ELSE IF input.threshold.kind # "undefined" /\ ~isFiniteNumber(input.threshold)
    THEN Rejected("threshold must be a number.")
  ELSE [ok |-> TRUE, model |-> input]

MaxItems == 2

JArrays(items) == { JArr(v) : v \in SeqsUpTo(items, MaxItems) }

FeatureValues == JArrays({ JStr("score") }) \cup { JArr(<< JNum(1) >>), Undefined }
WeightValues == JArrays({ JNum(1) }) \cup { JArr(<< JNull >>), Undefined }
StatsValues == JArrays({ JNum(1), JNull }) \cup { Undefined, JNull, JStr(""), JStr("x"), JNum(0) }

MetaInputs ==
  { [kind |-> "null"] }
    \cup { [kind |-> "object", version |-> v, features |-> f, weights |-> w, bias |-> b,
            means |-> m, stds |-> sd, threshold |-> th]
             : v \in { JStr(KnownVersion), JStr("fsd-meta-v2"), Undefined },
               f \in FeatureValues, w \in WeightValues, b \in { JNum(0), Undefined },
               m \in StatsValues, sd \in StatsValues,
               th \in { Undefined, JNum(1), JStr("x") } }

InitValidate ==
  /\ PureNotCalled /\ WorkerNotStarted
  /\ args \in MetaInputs
  /\ ret = << >>

ValidateMetaModel ==
  /\ ret = << >>
  /\ ret' = << validateMetaModel(args) >>
  /\ UNCHANGED << args, pureVars, workerVars >>

NextValidate == ValidateMetaModel

SpecValidate == InitValidate /\ [][NextValidate]_vars

(***************************************************************************)
(* metaModel.ts: predictWithMetaModel and featureVector.  Numbers are       *)
(* JNum(v), NotANumber or Undefined; the model has weights 1, bias 0 and no *)
(* means or stds, so the logit z is the sum of the features.                *)
(***************************************************************************)
NotANumber == [kind |-> "nan"]

\* (Math.abs(entry - stop) / entry) * 100, or NaN
stopPctOf(sig) ==
  IF isFiniteNumber(sig.entry) /\ sig.entry.num # 0
  THEN IF isFiniteNumber(sig.stop)
       THEN JNum((Abs(sig.entry.num - sig.stop.num) * 100) \div sig.entry.num)
       ELSE NotANumber
  ELSE NotANumber

\* diagnostics?.field
DiagField(diagnostics, field) ==
  IF diagnostics = << >> THEN Undefined ELSE diagnostics[1][field]

trendValue_Strict(diagnostics) ==
  LET t == DiagField(diagnostics, "trend")
  IN IF t = JStr("up") THEN JNum(1)
     ELSE IF t = JStr("down") THEN JNum(-1)
     ELSE IF t = JStr("neutral") THEN JNum(0)
     ELSE NotANumber

\* trend === 'up' ? 1 : trend === 'down' ? -1 : trend === 'neutral' ? 0 : 0
trendValue(diagnostics) ==
  LET t == DiagField(diagnostics, "trend")
  IN IF t = JStr("up") THEN JNum(1)
     ELSE IF t = JStr("down") THEN JNum(-1)
     ELSE IF t = JStr("neutral") THEN JNum(0)
     ELSE JNum(0)

FeatureNames == { "score", "rr", "stopPct", "atrPct", "adx", "bbBw", "emaSlope", "trend" }

\* map[f]
FeatureMap(f, sig, diagnostics) ==
  CASE f = "score" -> sig.score
    [] f = "rr" -> sig.rr
    [] f = "stopPct" -> stopPctOf(sig)
    [] f = "atrPct" -> DiagField(diagnostics, "atrPct")
    [] f = "adx" -> DiagField(diagnostics, "adx")
    [] f = "bbBw" -> DiagField(diagnostics, "bb")
    [] f = "emaSlope" -> DiagField(diagnostics, "emaSlope")
    [] f = "trend" -> trendValue(diagnostics)
    [] OTHER -> Undefined

\* << >> is null, << out >> the vector
RECURSIVE featureVector(_, _, _)
featureVector(features, sig, diagnostics) ==
  IF features = << >> THEN << << >> >>
  ELSE LET v == FeatureMap(Head(features), sig, diagnostics)
       IN IF ~isFiniteNumber(v) THEN << >>
          ELSE LET rest == featureVector(Tail(features), sig, diagnostics)
               IN IF rest = << >> THEN << >> ELSE << << v.num >> \o rest[1] >>

RECURSIVE SumSeq(_)
SumSeq(x) == IF x = << >> THEN 0 ELSE Head(x) + SumSeq(Tail(x))

\* the prediction is given by its logit z: pTp1 is the sigmoid of z and evR is
\* pTp1 * rr - (1 - pTp1)
predictWithMetaModel(p) ==
  LET x == featureVector(p.model.features, p.signal, p.diagnostics)
  IN IF x = << >> THEN JNull
     ELSE [kind |-> "prediction", z |-> p.model.bias + SumSeq(x[1])]

MaxFeatures == 2

PredictSignals ==
  { [score |-> sc, rr |-> r, entry |-> e, stop |-> st]
      : sc \in { JNum(80), NotANumber }, r \in { JNum(2), Undefined },
        e \in { JNum(100), JNum(0), NotANumber }, st \in { JNum(99), Undefined } }

PredictDiagnostics ==
  { << >> }
    \cup { << [atrPct |-> a, adx |-> x, bb |-> b, emaSlope |-> es, trend |-> t] >>
             : a \in { JNum(1), Undefined }, x \in { JNum(25), NotANumber },
               b \in { JNum(3), Undefined }, es \in { JNum(-1), NotANumber },
               t \in { JStr("up"), JStr("down"), JStr("neutral"), JStr("range"),
                       Undefined } }

PredictInputs ==
  { [model |-> [features |-> fs, bias |-> 0], signal |-> sig, diagnostics |-> dg]
      : fs \in SeqsUpTo(FeatureNames \cup { "volume" }, MaxFeatures),
        sig \in PredictSignals, dg \in PredictDiagnostics }

InitPredict ==
  /\ PureNotCalled /\ WorkerNotStarted
  /\ args \in PredictInputs
  /\ ret = << >>

PredictWithMetaModel ==
  /\ ret = << >>
  /\ ret' = << predictWithMetaModel(args) >>
  /\ UNCHANGED << args, pureVars, workerVars >>

NextPredict == PredictWithMetaModel

SpecPredict == InitPredict /\ [][NextPredict]_vars

(***************************************************************************)
(* train-meta-model.mjs: runWalkForward.  A row is given by its timestamp;  *)
(* the call is in ret[1]: its position pc, the locals testSize, minTrain,   *)
(* trainEnd and fold, and the results pushed so far.  The fit and the       *)
(* metrics of a fold are numbers computed from the two slices and do not    *)
(* enter the loop's control; a result keeps fold, trainSize and testSize.   *)
(***************************************************************************)
\* Math.floor(total * fraction) for fraction = pct / 100: the floor of the exact
\* product, or one less where the product is a whole number that the floating-point
\* product can fall short of
FloorOfProduct(total, pct) ==
  LET exact == (total * pct) \div 100
  IN IF (total * pct) % 100 = 0 /\ pct % 25 # 0 /\ exact > 0 THEN { exact, exact - 1 }
     ELSE { exact }

MinTestSize == 50

\* rows.slice(from, to)
Slice(rows, from, to) == SubSeq(rows, Min(from, Len(rows)) + 1, Min(to, Len(rows)))

WalkCalled == ret # << >>

WalkStart ==
  /\ ret = << >>
  /\ LET total == Len(args.rows)
     IN IF total = 0
        THEN ret' = << [pc |-> "returned", results |-> << >>] >>
        ELSE \E f1 \in FloorOfProduct(total, args.testFraction),
                f2 \in FloorOfProduct(total, args.minTrainFraction) :
               LET testSize == Max(MinTestSize, f1)
                   minTrain == Max(f2, testSize)
               IN ret' = << [pc |-> "loop", testSize |-> testSize, minTrain |-> minTrain,
                             trainEnd |-> minTrain, fold |-> 1, results |-> << >>] >>
  /\ UNCHANGED << args, pureVars, workerVars >>

LoopCondition_NoFoldLimit(st) == st.trainEnd + st.testSize <= Len(args.rows)

\* trainEnd + testSize <= total && fold <= opts.folds
LoopCondition(st) ==
  st.trainEnd + st.testSize <= Len(args.rows) /\ st.fold <= args.folds

WalkFold ==
  /\ WalkCalled /\ ret[1].pc = "loop"
  /\ LoopCondition(ret[1])
  /\ LET st == ret[1]
         trainRows == Slice(args.rows, 0, st.trainEnd)
         testRows == Slice(args.rows, st.trainEnd, st.trainEnd + st.testSize)
     IN IF trainRows = << >> \/ testRows = << >>
        THEN ret' = << [pc |-> "returned", results |-> st.results] >>
        ELSE ret' = << [st EXCEPT
                          !.results = Append(@, [fold |-> st.fold,
                                                 trainSize |-> Len(trainRows),
                                                 testSize |-> Len(testRows)]),
                          !.trainEnd = @ + st.testSize,
                          !.fold = @ + 1] >>
  /\ UNCHANGED << args, pureVars, workerVars >>

WalkReturn ==
  /\ WalkCalled /\ ret[1].pc = "loop"
  /\ ~LoopCondition(ret[1])
  /\ ret' = << [pc |-> "returned", results |-> ret[1].results] >>
  /\ UNCHANGED << args, pureVars, workerVars >>

MaxRows == 210
MaxFolds == 3

\* rows sorted by timestamp: one row per bar, or the rows of two symbols whose
\* signals fall on the same bars
OrderedRows(total, perBar) == [i \in 1..total |-> [ts |-> (i - 1) \div perBar]]

RowCounts == { 0, 1, 99, 100, 149, 150, 151 } \cup 199..MaxRows

WalkInputs ==
  { [rows |-> OrderedRows(total, perBar), folds |-> folds, testFraction |-> tf,
     minTrainFraction |-> mtf]
      : total \in RowCounts, perBar \in 1..2, folds \in 0..MaxFolds,
        tf \in { 15, 30 }, mtf \in { 10, 50 } }

InitWalk ==
  /\ PureNotCalled /\ WorkerNotStarted
  /\ args \in WalkInputs
  /\ ret = << >>

NextWalk == WalkStart \/ WalkFold \/ WalkReturn

\* the call runs to its end: nothing else is scheduled inside the synchronous loop
SpecWalk == InitWalk /\ [][NextWalk]_vars /\ WF_vars(NextWalk)

(***************************************************************************)
(* pivotHigh, pivotLow, detectSupplyDemandZones, makeZone.  An index is    *)
(* the 0-based array index of the code; candles[i] is At(candles, i).      *)
(* An ATR value is <<n>>, or <<>> for NaN.                                 *)
(***************************************************************************)
At(cs, i) == cs[i + 1]

\* variant: an equal extreme on the left does not prevent the pivot
Blocks_StrictBothSides(kind, side, other, curr) ==
  IF kind = "high" THEN other.high > curr.high ELSE other.low < curr.low

\* the comparison that makes a pivot loop return false
Blocks(kind, side, other, curr) ==
  IF kind = "high"
  THEN IF side = "left" THEN other.high >= curr.high ELSE other.high > curr.high
  ELSE IF side = "left" THEN other.low <= curr.low ELSE other.low < curr.low

\* for (i = from; i <= to; i += 1): positions outside the array are skipped
RECURSIVE PivotLoop(_, _, _, _, _, _)
PivotLoop(kind, side, cs, i, to, curr) ==
  IF i > to THEN TRUE
  ELSE IF i < 0 \/ i >= Len(cs) THEN PivotLoop(kind, side, cs, i + 1, to, curr)
  ELSE IF Blocks(kind, side, At(cs, i), curr) THEN FALSE
  ELSE PivotLoop(kind, side, cs, i + 1, to, curr)

Pivot(kind, cs, index, left, right) ==
  IF index < 0 \/ index >= Len(cs) THEN FALSE
  ELSE /\ PivotLoop(kind, "left", cs, index - left, index - 1, At(cs, index))
       /\ PivotLoop(kind, "right", cs, index + 1, index + right, At(cs, index))

pivotHigh(cs, index, left, right) == Pivot("high", cs, index, left, right)

pivotLow(cs, index, left, right) == Pivot("low", cs, index, left, right)

makeZone(type, pivotIndex, time, top, bottom) ==
  [type |-> type, pivotIndex |-> pivotIndex, startTime |-> time, top |-> top, bottom |-> bottom,
   fresh |-> TRUE, mitigated |-> FALSE, lastTouch |-> <<>>, endTime |-> <<>>]

\* the zones pushed for candle i: supply first, then demand
ZonesAt(cs, atrValues, cfg, i) ==
  LET candle == At(cs, i)
      atrI == IF i < Len(atrValues) THEN At(atrValues, i) ELSE <<>>
  IN IF atrI = <<>> THEN <<>>
     ELSE (IF pivotHigh(cs, i, cfg.left, cfg.right)
           THEN << makeZone("supply", i, candle.time, candle.high, candle.high - atrI[1] * cfg.atrMult) >>
           ELSE <<>>)
          \o (IF pivotLow(cs, i, cfg.left, cfg.right)
              THEN << makeZone("demand", i, candle.time, candle.low + atrI[1] * cfg.atrMult, candle.low) >>
              ELSE <<>>)

RECURSIVE BuildZones(_, _, _, _)
BuildZones(cs, atrValues, cfg, i) ==
  IF i >= Len(cs) THEN <<>>
  ELSE ZonesAt(cs, atrValues, cfg, i) \o BuildZones(cs, atrValues, cfg, i + 1)

\* the body of zones.forEach in the replay loop; the buffer is in thousandths
ReplayZone(zone, candle, cfg) ==
  IF zone.mitigated THEN zone
  ELSE IF candle.time < zone.startTime THEN zone
  ELSE LET touched == IF zone.type = "demand"
                      THEN candle.low <= zone.top /\ candle.low >= zone.bottom
                      ELSE candle.high >= zone.bottom /\ candle.high <= zone.top
           invalidated == IF zone.type = "demand"
                          THEN candle.close * 1000 < zone.bottom * (1000 - cfg.bufferPerMille)
                          ELSE candle.close * 1000 > zone.top * (1000 + cfg.bufferPerMille)
           z1 == IF touched THEN [zone EXCEPT !.fresh = FALSE, !.lastTouch = << candle.time >>] ELSE zone
       IN IF invalidated THEN [z1 EXCEPT !.mitigated = TRUE, !.endTime = << candle.time >>] ELSE z1

RECURSIVE ReplayCandles(_, _, _, _)
ReplayCandles(zones, cs, cfg, i) ==
  IF i >= Len(cs) THEN zones
  ELSE ReplayCandles([z \in 1..Len(zones) |-> ReplayZone(zones[z], At(cs, i), cfg)], cs, cfg, i + 1)

detectSupplyDemandZones(cs, atrValues, cfg) ==
  ReplayCandles(BuildZones(cs, atrValues, cfg, 0), cs, cfg, 0)

\* the longest candle array of the pivot and zone calls
MaxZoneBars == 3

\* high, low and close of a candle: three quiet bars, a sell-off, a rally, a close at the high
ZoneBars ==
  { [high |-> 102, low |-> 100, close |-> 101],
    [high |-> 102, low |-> 99, close |-> 100],
    [high |-> 101, low |-> 99, close |-> 100],
    [high |-> 100, low |-> 97, close |-> 98],
    [high |-> 105, low |-> 102, close |-> 104],
    [high |-> 102, low |-> 101, close |-> 102] }

\* candle arrays with times 1, 2, ...
ZoneCandles ==
  UNION { { [k \in 1..n |-> [time |-> k, high |-> f[k].high, low |-> f[k].low, close |-> f[k].close]]
              : f \in [1..n -> ZoneBars] } : n \in 0..MaxZoneBars }

\* pivot calls, with an index before, inside and after the array
PivotInputs ==
  { [fn |-> fn, candles |-> c.cs, index |-> c.i, left |-> l, right |-> r]
      : fn \in {"pivotHigh", "pivotLow"},
        c \in UNION { { [cs |-> x, i |-> i] : i \in -1..Len(x) } : x \in ZoneCandles },
        l \in 0..2, r \in 0..2 }

\* the largest ATR value of a zone call
MaxAtr == 2

ZoneInputs ==
  { [fn |-> "detectSupplyDemandZones", candles |-> cs, atrValues |-> [k \in 1..Len(cs) |-> a],
     cfg |-> [left |-> 1, right |-> 1, atrMult |-> 1, bufferPerMille |-> 1]]
      : cs \in ZoneCandles, a \in { <<>> } \cup { << n >> : n \in 0..MaxAtr } }

InitZones ==
  /\ PureNotCalled /\ WorkerNotStarted
  /\ args \in PivotInputs \cup ZoneInputs
  /\ ret = << >>

PivotHigh ==
  /\ ret = << >>
  /\ args.fn = "pivotHigh"
  /\ ret' = << pivotHigh(args.candles, args.index, args.left, args.right) >>
  /\ UNCHANGED << args, pureVars, workerVars >>

PivotLow ==
  /\ ret = << >>
  /\ args.fn = "pivotLow"
  /\ ret' = << pivotLow(args.candles, args.index, args.left, args.right) >>
  /\ UNCHANGED << args, pureVars, workerVars >>

DetectSupplyDemandZones ==
  /\ ret = << >>
  /\ args.fn = "detectSupplyDemandZones"
  /\ ret' = << detectSupplyDemandZones(args.candles, args.atrValues, args.cfg) >>
  /\ UNCHANGED << args, pureVars, workerVars >>

NextZones == PivotHigh \/ PivotLow \/ DetectSupplyDemandZones

SpecZones == InitZones /\ [][NextZones]_vars

(***************************************************************************)
(* components/FuturesProContext: mapLimit.  ret[1] holds the locals of one  *)
(* call (index, active, results), the state of the promise it returned and  *)
(* of fn's promise for every item: idle (not started), pending, fulfilled   *)
(* or rejected (settled, no callback run yet), handled (the then or catch   *)
(* callback has run) and done (the finally callback has run).               *)
(***************************************************************************)
MapLimitStart(in) ==
  [index |-> 0, active |-> 0, results |-> << >>, promise |-> "pending",
   inv |-> [k \in 1..in.n |-> "idle"], starts |-> [k \in 1..in.n |-> 0]]

\* variant: the while loop does not look at active
RECURSIVE StartLoop_Unbounded(_, _)
StartLoop_Unbounded(st, in) ==
  IF st.index < in.n
  THEN StartLoop_Unbounded([st EXCEPT !.index = @ + 1, !.active = @ + 1,
                                      !.inv[st.index + 1] = "pending",
                                      !.starts[st.index + 1] = @ + 1], in)
  ELSE st

\* while (active < limit && index < items.length): fn(items[index++]) is started
RECURSIVE StartLoop(_, _)
StartLoop(st, in) ==
  IF st.active < in.limit /\ st.index < in.n
  THEN StartLoop([st EXCEPT !.index = @ + 1, !.active = @ + 1,
                            !.inv[st.index + 1] = "pending",
                            !.starts[st.index + 1] = @ + 1], in)
  ELSE st

\* resolve and reject settle the returned promise once; later calls change nothing
SettlePromise(st, how) == [st EXCEPT !.promise = IF @ = "pending" THEN how ELSE @]

\* const next = () => { ... }
next(st, in) ==
  IF st.index >= in.n /\ st.active = 0 THEN SettlePromise(st, "resolved")
  ELSE StartLoop(st, in)

\* the longest item list, and the largest limit, of a call
MaxMapItems == 3
MaxLimit == 2

\* items 1..n, a limit, and the items for which fn rejects
MapLimitInputs ==
  { [n |-> n, limit |-> l, rejects |-> rj]
      : n \in 0..MaxMapItems, l \in 1..MaxLimit, rj \in SUBSET (1..MaxMapItems) }

InitMapLimit ==
  /\ PureNotCalled /\ WorkerNotStarted
  /\ args \in { in \in MapLimitInputs : in.rejects \subseteq 1..in.n }
  /\ ret = << >>

\* mapLimit(items, limit, fn): the executor runs next() once, synchronously
MapLimit ==
  /\ ret = << >>
  /\ ret' = << next(MapLimitStart(args), args) >>
  /\ UNCHANGED << args, pureVars, workerVars >>

\* the promise of fn(item k) settles
FnSettles(k) ==
  /\ ret # << >>
  /\ ret[1].inv[k] = "pending"
  /\ ret' = << [ret[1] EXCEPT !.inv[k] = IF k \in args.rejects THEN "rejected" ELSE "fulfilled"] >>
  /\ UNCHANGED << args, pureVars, workerVars >>

\* .then((r) => results.push(r))
ThenCallback(k) ==
  /\ ret # << >>
  /\ ret[1].inv[k] = "fulfilled"
  /\ ret' = << [ret[1] EXCEPT !.inv[k] = "handled", !.results = Append(@, k)] >>
  /\ UNCHANGED << args, pureVars, workerVars >>

\* .catch(reject)
CatchCallback(k) ==
  /\ ret # << >>
  /\ ret[1].inv[k] = "rejected"
  /\ ret' = << SettlePromise([ret[1] EXCEPT !.inv[k] = "handled"], "rejected") >>
  /\ UNCHANGED << args, pureVars, workerVars >>

\* .finally(() => { active -= 1; next(); })
FinallyCallback(k) ==
  /\ ret # << >>
  /\ ret[1].inv[k] = "handled"
  /\ ret' = << next([ret[1] EXCEPT !.inv[k] = "done", !.active = @ - 1], args) >>
  /\ UNCHANGED << args, pureVars, workerVars >>

NextMapLimit ==
  \/ MapLimit
  \/ \E k \in 1..args.n : FnSettles(k)
  \/ \E k \in 1..args.n : ThenCallback(k)
  \/ \E k \in 1..args.n : CatchCallback(k)
  \/ \E k \in 1..args.n : FinallyCallback(k)

SpecMapLimit == InitMapLimit /\ [][NextMapLimit]_vars

(***************************************************************************)
(* Claims about the worker and its triggers                                *)
(***************************************************************************)

\* C1: at most one run() cycle is in progress at any time, whatever triggered it
\* (the initial run, a setInterval tick, a POST /refresh)
C1_AtMostOneRun == Cardinality({ r \in RunIds : runs[r].pc # "idle" }) <= 1

\* run() of trigger r returns in this step
Returns(r) == runs[r].pc = "persisting" /\ runs'[r].pc = "idle"

Threw(r) == { k \in 1..Len(Units) : k \notin runs[r].evaluated }

RecordedFor(r, k) == \E e \in 1..Len(runs[r].errors) : runs[r].errors[e] = ErrorOf(Units[k])

\* C2: a unit that throws does not end the cycle: when run() returns, every unit was
\* either evaluated or recorded as failed, the snapshot carries the collected signals,
\* its status is 'error' with the first recorded failure when a unit or the write
\* failed, and 'ok' with no error otherwise
C2_UnitFailureDoesNotAbort ==
  [][\A r \in RunIds : Returns(r) =>
       LET persistFailed == faults' > faults
       IN /\ \A k \in Threw(r) : RecordedFor(r, k)
          /\ latest'.signals = runs[r].collected
          /\ \A k \in runs[r].evaluated : ~RecordedFor(r, k)
          /\ latest'.status = IF Threw(r) = {} /\ ~persistFailed THEN "ok" ELSE "error"
          /\ latest'.error = IF Threw(r) # {}
                               THEN << ErrorOf(Units[CHOOSE k \in Threw(r) : \A j \in Threw(r) : k <= j]) >>
                             ELSE IF persistFailed THEN << PersistError >> ELSE <<>>]_vars

\* the first unit threw, the second was evaluated and its signal collected
C2_Witness ==
  /\ latest.status = "error"
  /\ latest.error = << ErrorOf(Units[1]) >>
  /\ \E k \in 1..Len(latest.signals) : latest.signals[k].timeframe = Units[2].timeframe

\* C3: a unit whose candle fetch failed on every source is a failed unit: the snapshot
\* of that cycle has status 'error' and holds no signal of that unit
C3_FetchFailureIsUnitFailure ==
  [][\A r \in RunIds : Returns(r) /\ runs[r].fetchFailed # {} =>
       /\ latest'.status = "error"
       /\ \A k \in runs[r].fetchFailed : \A j \in 1..Len(latest'.signals) :
            latest'.signals[j].timeframe # Units[k].timeframe]_vars

\* C4: when the write fails the cycle has status 'error', the in-memory history is
\* left as it is (this cycle's signals and outcomes included), the snapshot carries
\* the cycle's signals, and it replaces the latest snapshot
C4_PersistFailureKeepsState ==
  [][\A r \in RunIds : Returns(r) /\ faults' > faults =>
       /\ latest'.status = "error"
       /\ (Threw(r) = {} => latest'.error = << PersistError >>)
       /\ history' = history
       /\ latest'.signals = runs[r].collected
       /\ latest'.lastRun = runs[r].started]_vars

\* the write failed in a cycle that generated a signal and resolved an outcome, and
\* both are in the history
C4_Witness ==
  /\ latest.status = "error"
  /\ latest.error = << PersistError >>
  /\ \E k \in 1..Len(latest.signals) : \E j \in 1..Len(history) : history[j].id = latest.signals[k].id
  /\ \E j \in 1..Len(history) : history[j].outcome \in {"tp1", "stop", "timeout"}
                                /\ history[j].outcomeAt = << ohlcvLimit * timeframeSeconds("5m") >>
  /\ \A r \in RunIds : runs[r].pc = "idle"
  /\ runCount = 1

\* C5: whenever no run is in progress (after construction, after every run) the
\* history holds at most historyCap signals, and what persistState is handed never
\* holds more
C5_HistoryWithinCap ==
  /\ (\A r \in RunIds : runs[r].pc = "idle") => Len(history) <= historyCap
  /\ \A r \in RunIds : runs[r].handed # <<>> => Len(runs[r].handed[1].history) <= historyCap

Resolved(s) == s.outcome \in {"tp1", "stop", "timeout"}

\* C6: a signal of the history keeps its side, entry, stop, tp1, rr, score and
\* timestamp, and once its outcome is tp1, stop or timeout it does not change at all
C6_SignalsImmutableOnceResolved ==
  [][\A i \in 1..Len(history) : \A j \in 1..Len(history') :
       history[i].id = history'[j].id =>
         /\ history'[j].side = history[i].side
         /\ history'[j].entry = history[i].entry
         /\ history'[j].stop = history[i].stop
         /\ history'[j].tp1 = history[i].tp1
         /\ history'[j].rr = history[i].rr
         /\ history'[j].score = history[i].score
         /\ history'[j].timestamp = history[i].timestamp
         /\ history'[j].symbol = history[i].symbol
         /\ history'[j].timeframe = history[i].timeframe
         /\ (Resolved(history[i]) => history'[j] = history[i])]_vars

\* a 5m signal stopped out on the first window is still in the history after the 5m
\* unit was evaluated again on the next window
C6_Witness ==
  /\ \E j \in 1..Len(history) : history[j].timeframe = "5m" /\ history[j].outcome = "stop"
  /\ ohlcvCache["5m"] # <<>>
  /\ ohlcvCache["5m"][1].ts = TickMs
  /\ \A r \in RunIds : runs[r].pc = "idle"

\* C12: a cycle that fetched a candle window leaves every stored signal of that unit
\* whose timestamp lies before the window's first candle or after its last one
\* without a tp1, stop or timeout outcome
C12_OutsideWindowStaysOpen ==
  [][\A tf \in DOMAIN ohlcvCache :
       (ohlcvCache'[tf] # ohlcvCache[tf]) =>
         LET cs == ohlcvCache'[tf][1].data
         IN \A i \in 1..Len(history) : \A j \in 1..Len(history') :
              ( /\ history[i].id = history'[j].id
                /\ history[i].timeframe = tf
                /\ ~Resolved(history[i])
                /\ \/ history[i].timestamp < cs[1].time
                   \/ history[i].timestamp > cs[Len(cs)].time )
              => ~Resolved(history'[j])]_vars

\* C27: under any interleaving of scheduled cycles and POST /refresh requests the
\* snapshot of getSnapshot() is that of the most recently started run that has
\* completed: the lastRun observed through it never decreases
C27_LastRunNeverDecreases ==
  [][latest.status # "unknown" => latest'.lastRun >= latest.lastRun]_vars

(***************************************************************************)
(* Claims about generateSignals                                            *)
(***************************************************************************)
\* the last signal of the history with the symbol, timeframe and side of s, as a set
LastSameSide(s, h) ==
  { k \in 1..Len(h) : /\ h[k].symbol = s.symbol /\ h[k].timeframe = s.timeframe /\ h[k].side = s.side
                      /\ \A j \in (k + 1)..Len(h) :
                           ~(h[j].symbol = s.symbol /\ h[j].timeframe = s.timeframe /\ h[j].side = s.side) }

\* the static gate conditions of args.gate for a returned signal s
StaticGateHolds(s) ==
  LET gate == args.gate
      last == args.candles[Len(args.candles)]
  IN /\ Abs(s.entry - s.stop) * 10000 <= gate.maxStopPct * s.entry
     /\ s.rr.num * 100 >= gate.minRR * s.rr.den
     /\ args.ind.atr * 10000 >= gate.atrPctMin * last.close
     /\ args.ind.atr * 10000 <= gate.atrPctMax * last.close
     /\ \A k \in LastSameSide(s, args.history) :
          s.timestamp - args.history[k].timestamp >= gate.cooldownBars * timeframeSeconds(s.timeframe)
     /\ s.score >= gate.scoreMin

\* C13: every signal generateSignals returns satisfies the static gate it was given:
\* stop distance, rr, ATR% range, cooldown since the last same-side signal, score
C13_ReturnedSignalsPassGate ==
  ret # <<>> => \A k \in 1..Len(ret[1]) : StaticGateHolds(ret[1][k])

\* C14: generateSignals returns no signal for which the history holds a signal of the
\* same symbol, timeframe and side less than 15 minutes (900 s) away
C14_NoSignalWithinDedupeWindow ==
  ret # <<>> =>
    \A k \in 1..Len(ret[1]) : \A j \in 1..Len(args.history) :
      ~( /\ args.history[j].symbol = ret[1][k].symbol
         /\ args.history[j].timeframe = ret[1][k].timeframe
         /\ args.history[j].side = ret[1][k].side
         /\ Abs(args.history[j].timestamp - ret[1][k].timestamp) < 900 )

\* a call that returns nothing although the same call on an empty history returns a
\* signal and every same-side history signal is older than the cooldown: the
\* candidate was dropped for a 1m signal five bars (300 s) back
C14_Witness ==
  /\ ret = << <<>> >>
  /\ args.timeframe = "1m"
  /\ signalEngine_generateSignals([args EXCEPT !.history = <<>>]) # <<>>
  /\ args.history # <<>>
  /\ \A j \in 1..Len(args.history) :
       args.candles[Len(args.candles)].time - args.history[j].timestamp
         >= args.gate.cooldownBars * timeframeSeconds(args.timeframe)

\* the most recent signals of the history for the symbol and timeframe of the call
MostRecentOf(h) ==
  { k \in 1..Len(h) : /\ h[k].symbol = args.symbol /\ h[k].timeframe = args.timeframe
                      /\ \A j \in 1..Len(h) :
                           (h[j].symbol = args.symbol /\ h[j].timeframe = args.timeframe)
                             => h[j].timestamp <= h[k].timestamp }

\* the time from history signal m to the last candle of the call
SinceSignal(m) == args.candles[Len(args.candles)].time - m.timestamp

\* m still evaluates as open within the 60-bar forward window
StillOpen(m) ==
  /\ SinceSignal(m) <= 60 * timeframeSeconds(args.timeframe)
  /\ evaluateSignal(m, args.candles, [maxHoldBars |-> 60, executionCosts |-> <<>>]).outcome = "open"

\* C24: in trend mode no signal is returned while the most recent history signal of the
\* symbol and timeframe, of either side, is fewer than cooldownBars bars older than the
\* last candle, and no signal of its side while it still evaluates as open
C24_TrendCooldownAndOpenSuppression ==
  (ret # <<>> /\ args.trendMode) =>
    \A k \in MostRecentOf(args.history) :
      LET m == args.history[k]
      IN /\ SinceSignal(m) < args.gate.cooldownBars * timeframeSeconds(args.timeframe)
              => ret[1] = <<>>
         /\ StillOpen(m) => \A i \in 1..Len(ret[1]) : ret[1][i].side # m.side

\* a trend call that returns nothing, although the same call on an empty history
\* returns a signal, because the most recent signal, of the other side and already
\* resolved, is fewer than cooldownBars bars old
C24_Witness ==
  /\ ret = << <<>> >>
  /\ args.trendMode
  /\ signalEngine_generateSignals([args EXCEPT !.history = <<>>]) # <<>>
  /\ \E k \in MostRecentOf(args.history) :
       /\ args.history[k].side # args.ind.trend
       /\ ~StillOpen(args.history[k])
       /\ SinceSignal(args.history[k]) < args.gate.cooldownBars * timeframeSeconds(args.timeframe)
  /\ \A j \in 1..Len(args.history) : args.history[j].side # args.ind.trend

\* C28: one generateSignals call never returns two signals with the same symbol,
\* timeframe, side and timestamp
C28_NoDuplicateInOneCall ==
  ret # <<>> =>
    \A i \in 1..Len(ret[1]) : \A j \in (i + 1)..Len(ret[1]) :
      ~( /\ ret[1][i].symbol = ret[1][j].symbol
         /\ ret[1][i].timeframe = ret[1][j].timeframe
         /\ ret[1][i].side = ret[1][j].side
         /\ ret[1][i].timestamp = ret[1][j].timestamp )

(***************************************************************************)
(* Claims about pivots and zones                                            *)
(***************************************************************************)
\* the array positions of the pivot call's left and right neighbours
LeftOf == { k \in 0..(Len(args.candles) - 1) : k >= args.index - args.left /\ k <= args.index - 1 }

RightOf == { k \in 0..(Len(args.candles) - 1) : k >= args.index + 1 /\ k <= args.index + args.right }

\* candle k lies strictly beyond the pivot candidate: higher for pivotHigh, lower for pivotLow
StrictlyBeyond(k) ==
  IF args.fn = "pivotHigh" THEN At(args.candles, k).high > At(args.candles, args.index).high
  ELSE At(args.candles, k).low < At(args.candles, args.index).low

LevelWith(k) ==
  IF args.fn = "pivotHigh" THEN At(args.candles, k).high = At(args.candles, args.index).high
  ELSE At(args.candles, k).low = At(args.candles, args.index).low

PivotCallInside ==
  /\ ret # << >>
  /\ args.fn \in {"pivotHigh", "pivotLow"}
  /\ args.index >= 0 /\ args.index < Len(args.candles)

\* C26 as claimed: pivotHigh is true exactly when no candle in [i-L, i-1] and none in
\* [i+1, i+R] has a strictly greater high (an equal high on either side does not
\* prevent the pivot); pivotLow is the symmetric rule on lows
C26_PivotIffNoneStrictlyBeyond ==
  PivotCallInside => (ret[1] <=> \A k \in LeftOf \cup RightOf : ~StrictlyBeyond(k))

\* C26 amended: pivotHigh is true exactly when no candle in [i-L, i-1] has a high
\* greater than or equal to candle i's and no candle in [i+1, i+R] has a strictly
\* greater high; pivotLow is the symmetric rule on lows
C26_PivotIffNoneBeyondOrLevelOnLeft ==
  PivotCallInside =>
    (ret[1] <=> /\ \A k \in LeftOf : ~StrictlyBeyond(k) /\ ~LevelWith(k)
                /\ \A k \in RightOf : ~StrictlyBeyond(k))

\* a pivotHigh call that returns false although no neighbour is strictly higher: a left
\* neighbour has the same high; a right neighbour with the same high is there as well
C26_Witness ==
  /\ PivotCallInside
  /\ args.fn = "pivotHigh"
  /\ ret = << FALSE >>
  /\ \A k \in LeftOf \cup RightOf : ~StrictlyBeyond(k)
  /\ \E k \in LeftOf : LevelWith(k)
  /\ \E k \in RightOf : LevelWith(k)

\* some candle later than the zone's pivot candle has its low (demand) or high (supply)
\* inside the band
TouchedLater(zone) ==
  \E k \in 1..Len(args.candles) :
    /\ args.candles[k].time > zone.startTime
    /\ IF zone.type = "demand"
       THEN args.candles[k].low >= zone.bottom /\ args.candles[k].low <= zone.top
       ELSE args.candles[k].high >= zone.bottom /\ args.candles[k].high <= zone.top

\* C25: a returned zone has fresh = false only if a later candle's low (demand) or high
\* (supply) lies inside its band; a zone no later candle intersects is returned fresh
\* and without lastTouch
C25_FreshUntilLaterCandleTouches ==
  (ret # << >> /\ args.fn = "detectSupplyDemandZones") =>
    \A z \in 1..Len(ret[1]) :
      /\ ret[1][z].fresh = FALSE => TouchedLater(ret[1][z])
      /\ ~TouchedLater(ret[1][z]) => (ret[1][z].fresh /\ ret[1][z].lastTouch = << >>)

(***************************************************************************)
(* Claims about computeAutoMuteDecision                                    *)
(***************************************************************************)
EvalOf(s) ==
  evaluateSignal(s, args.candles, [maxHoldBars |-> args.maxHoldBars, executionCosts |-> args.executionCosts])

\* the positions in args.signals of the requested stream's signals that resolve
ResolvedInScope ==
  { k \in 1..Len(args.signals) :
      /\ args.signals[k].symbol = args.symbol
      /\ args.signals[k].timeframe = args.timeframe
      /\ args.signals[k].dataSource \in { <<>>, << args.dataSource >> }
      /\ args.signals[k].gateMode \in { <<>>, << args.gateMode >> }
      /\ EvalOf(args.signals[k]).outcome # "open" }

\* C15: with fewer than minTradesToDecide resolved trades of the requested stream the
\* decision is muted = false with expectancyR = null, whatever their r
C15_TooFewTradesNeverMute ==
  (ret # <<>> /\ Cardinality(ResolvedInScope) < args.minTradesToDecide) =>
     ret[1].muted = FALSE /\ ret[1].expectancyR = <<>>

\* one resolved losing trade short of the minimum
C15_Witness ==
  /\ ret # <<>>
  /\ args.minTradesToDecide >= 2
  /\ Cardinality(ResolvedInScope) = args.minTradesToDecide - 1
  /\ \A k \in ResolvedInScope : EvalOf(args.signals[k]).r.num < 0
  /\ ret[1].evaluatedTrades = args.minTradesToDecide - 1

\* the requested stream's signals in timestamp order
StreamSignals ==
  SortByTimestamp(SelectSeq(args.signals,
    LAMBDA s : /\ s.symbol = args.symbol
               /\ s.timeframe = args.timeframe
               /\ s.dataSource \in { <<>>, << args.dataSource >> }
               /\ s.gateMode \in { <<>>, << args.gateMode >> }))

TradesOf(sigs) == [k \in 1..Len(sigs) |-> EvalOf(sigs[k])]

ResolvedOf(trades) == SelectSeq(trades, LAMBDA t : t.outcome # "open")

LastN(list, n) == SubSeq(list, Max(1, Len(list) - n + 1), Len(list))

\* the sum of r over trades, in units of 1/RDen(1) (every signal here has risk 1)
RECURSIVE SumNum(_, _)
SumNum(trades, k) == IF k = 0 THEN 0 ELSE SumNum(trades, k - 1) + trades[k].r.num

MuteRule(window) ==
  /\ ret[1].evaluatedTrades = Len(window)
  /\ \A k \in 1..Len(window) : window[k].r.den = RDen(1)
  /\ ret[1].muted = (Len(window) >= args.minTradesToDecide /\ SumNum(window, Len(window)) < 0)

\* C16 as stated: the decision is taken over the most recent windowTrades signals of
\* the requested stream, each evaluated: muted exactly when enough of them are
\* resolved and the mean r of those is below 0
C16_WindowOfRecentSignals ==
  (ret # <<>> /\ args.windowTrades >= 1) =>
     MuteRule(ResolvedOf(TradesOf(LastN(StreamSignals, args.windowTrades))))

\* C16 as amended: the decision is taken over the most recent windowTrades resolved
\* trades of the requested stream (open trades are dropped before the window is cut):
\* muted exactly when at least minTradesToDecide are in the window and their mean r is
\* below 0; signals of other streams do not enter
C16_WindowOfRecentResolvedTrades ==
  (ret # <<>> /\ args.windowTrades >= 1) =>
     MuteRule(LastN(ResolvedOf(TradesOf(StreamSignals)), args.windowTrades))

\* muted on the newest resolved trade alone: an older resolved trade is cut off by the
\* window and the newest signal of the stream is still open
C16_Witness ==
  /\ ret # <<>>
  /\ ret[1].muted
  /\ args.windowTrades = 1
  /\ Len(ResolvedOf(TradesOf(StreamSignals))) = 2
  /\ Len(StreamSignals) = 3
  /\ EvalOf(StreamSignals[3]).outcome = "open"

(***************************************************************************)
(* Claims about buildDynamicGate                                            *)
(***************************************************************************)
BaseMid == FDiv(FAdd(args.baseGate.atrPctMin, args.baseGate.atrPctMax), Frac(2, 1))

\* the adjustment ran and the median trailing ATR% is exactly the base midpoint
MedianAtBaseMid ==
  /\ ret # << >>
  /\ args.enabled
  /\ ret[1].info # << >>
  /\ FEq(ret[1].info[1].atrMedianPct, BaseMid)

\* C17 as stated: with the median trailing ATR% at the base midpoint the returned
\* gate has the base gate's atrPctMin, atrPctMax, maxStopPct, stopAtrMult and minRR
C17_MidpointLeavesGateUnchanged ==
  MedianAtBaseMid =>
     /\ FEq(ret[1].gate.atrPctMin, args.baseGate.atrPctMin)
     /\ FEq(ret[1].gate.atrPctMax, args.baseGate.atrPctMax)
     /\ FEq(ret[1].gate.maxStopPct, args.baseGate.maxStopPct)
     /\ FEq(ret[1].gate.stopAtrMult, args.baseGate.stopAtrMult)
     /\ FEq(ret[1].gate.minRR, args.baseGate.minRR)

\* base thresholds inside the absolute bounds the adjuster clamps to
BaseWithinAbsoluteBounds ==
  LET b == args.baseGate
  IN /\ ~FLess(b.atrPctMin, Frac(1, 100)) /\ ~FLess(Frac(10, 1), b.atrPctMin)
     /\ ~FLess(b.atrPctMax, Frac(2, 100)) /\ ~FLess(Frac(20, 1), b.atrPctMax)
     /\ ~FLess(b.atrPctMax, b.atrPctMin)
     /\ FLess(Frac(0, 1), b.maxStopPct) /\ FLess(Frac(0, 1), b.stopAtrMult)
     /\ FLess(Frac(0, 1), b.minRR)

\* C17 as amended: with the median trailing ATR% at the base midpoint and the base
\* thresholds inside the absolute bounds, atrPctMin, atrPctMax, maxStopPct and
\* stopAtrMult are the base gate's and minRR is the base minRR times 1.05
C17_MidpointScalesOnlyMinRR ==
  (MedianAtBaseMid /\ BaseWithinAbsoluteBounds) =>
     /\ FEq(ret[1].info[1].ratio, Frac(1, 1))
     /\ FEq(ret[1].gate.atrPctMin, args.baseGate.atrPctMin)
     /\ FEq(ret[1].gate.atrPctMax, args.baseGate.atrPctMax)
     /\ FEq(ret[1].gate.maxStopPct, args.baseGate.maxStopPct)
     /\ FEq(ret[1].gate.stopAtrMult, args.baseGate.stopAtrMult)
     /\ FEq(ret[1].gate.minRR, FMul(args.baseGate.minRR, Frac(105, 100)))

\* the default gate adjusted on three samples whose median ATR% is 0.825, one sample
\* below it and one above
C17_Witness ==
  /\ MedianAtBaseMid /\ BaseWithinAbsoluteBounds
  /\ BaseMid = Frac(825, 1000)
  /\ Len(args.candles) = 4 /\ args.atrPeriod = 1 /\ args.lookback = 3
  /\ TrueRange(args.candles, 2) < TrueRange(args.candles, 3)
  /\ TrueRange(args.candles, 3) < TrueRange(args.candles, 4)

(***************************************************************************)
(* Claims about validateMetaModel                                           *)
(***************************************************************************)
HasLength(x) == x.kind \in { "array", "string" }

\* present with a length that is not the length of features
LengthMismatch(x) ==
  HasLength(x) /\ HasLength(args.features) /\ LengthOf(x) # LengthOf(args.features)

\* C18: an input with an unknown version, with weights of another length than
\* features, or with means or stds present in another length than features is
\* rejected; an accepted model has weights, and means and stds where present, of the
\* length of features
C18_ValidatedLengthsAgree ==
  (ret # << >> /\ args.kind = "object") =>
     /\ (\/ args.version # JStr(KnownVersion)
         \/ LengthMismatch(args.weights)
         \/ LengthMismatch(args.means)
         \/ LengthMismatch(args.stds)) => ~ret[1].ok
     /\ ret[1].ok =>
          /\ LengthOf(ret[1].model.weights) = LengthOf(ret[1].model.features)
          /\ HasLength(ret[1].model.means) =>
               LengthOf(ret[1].model.means) = LengthOf(ret[1].model.features)
          /\ HasLength(ret[1].model.stds) =>
               LengthOf(ret[1].model.stds) = LengthOf(ret[1].model.features)

(***************************************************************************)
(* Claims about predictWithMetaModel                                        *)
(***************************************************************************)
Named(f) == \E k \in 1..Len(args.model.features) : args.model.features[k] = f

Finite(v) == v.kind = "number"

DiagnosticsValue(field) ==
  IF args.diagnostics = << >> THEN Undefined ELSE args.diagnostics[1][field]

\* a named feature other than trend has no finite value, or is not a known feature
MissingBesidesTrend ==
  \/ Named("score") /\ ~Finite(args.signal.score)
  \/ Named("rr") /\ ~Finite(args.signal.rr)
  \/ Named("stopPct") /\ (\/ ~Finite(args.signal.entry) \/ ~Finite(args.signal.stop)
                           \/ args.signal.entry = JNum(0))
  \/ Named("atrPct") /\ ~Finite(DiagnosticsValue("atrPct"))
  \/ Named("adx") /\ ~Finite(DiagnosticsValue("adx"))
  \/ Named("bbBw") /\ ~Finite(DiagnosticsValue("bb"))
  \/ Named("emaSlope") /\ ~Finite(DiagnosticsValue("emaSlope"))
  \/ \E k \in 1..Len(args.model.features) : args.model.features[k] \notin FeatureNames

TrendMissing == Named("trend") /\ DiagnosticsValue("trend") = Undefined

\* C19 as stated: no prediction exactly when a named feature, trend included, is
\* missing or not finite or is not a known feature
C19_MissingFeatureNoPrediction ==
  ret # << >> => (ret[1] = JNull <=> (MissingBesidesTrend \/ TrendMissing))

\* C19 as amended: no prediction exactly when a named feature other than trend is
\* missing or not finite or is not a known feature; a missing trend counts as 0
C19_MissingFeatureBesidesTrendNoPrediction ==
  ret # << >> => (ret[1] = JNull <=> MissingBesidesTrend)

\* a prediction for a model that names trend and a finite feature, without diagnostics
\* trend
C19_Witness ==
  /\ ret # << >>
  /\ ret[1] # JNull
  /\ TrendMissing
  /\ Named("score")

(***************************************************************************)
(* Claims about runWalkForward                                              *)
(***************************************************************************)
Folds == ret[1].results

\* the rows of fold k: training rows 1..TrainLast(k), test rows TestFirst(k)..TestLast(k)
TrainLast(k) == Folds[k].trainSize
TestFirst(k) == Folds[k].trainSize + 1
TestLast(k) == Folds[k].trainSize + Folds[k].testSize

WalkReturned == ret # << >> /\ ret[1].pc = "returned"

\* at most folds folds; every test window lies in the rows, begins where its training
\* window ends and where the previous test window ended; nothing from too few rows
WindowsChained ==
  ret # << >> =>
     /\ Len(Folds) <= Max(args.folds, 0)
     /\ \A k \in 1..Len(Folds) :
          /\ Folds[k].fold = k
          /\ TrainLast(k) >= 1 /\ TestFirst(k) <= TestLast(k)
          /\ TestLast(k) <= Len(args.rows)
          /\ k > 1 => TestFirst(k) = TestLast(k - 1) + 1
     /\ Len(args.rows) < 2 * MinTestSize => Folds = << >>

\* in time: every test row of a fold is later than every test row of the fold before
\* and later than every training row of its own fold
StrictlyLaterInTime ==
  ret # << >> =>
     \A k \in 1..Len(Folds) :
        /\ args.rows[TrainLast(k)].ts < args.rows[TestFirst(k)].ts
        /\ k > 1 => args.rows[TestLast(k - 1)].ts < args.rows[TestFirst(k)].ts

\* in time: no training row of a fold is later than a test row of the fold, and no
\* test row of a fold is earlier than a test row of the fold before
NeverEarlierInTime ==
  ret # << >> =>
     \A k \in 1..Len(Folds) :
        /\ \A i \in 1..TrainLast(k) : args.rows[i].ts <= args.rows[TestFirst(k)].ts
        /\ \A j \in TestFirst(k)..TestLast(k) : args.rows[TestFirst(k)].ts <= args.rows[j].ts
        /\ k > 1 => args.rows[TestLast(k - 1)].ts <= args.rows[TestFirst(k)].ts

\* C20 as stated: the call returns; at most folds folds, the test windows chained,
\* pairwise disjoint and strictly increasing in time, no training row at or after a
\* test row of its fold; too few rows give no fold
C20_WalkForwardStrictInTime ==
  [](WindowsChained /\ StrictlyLaterInTime) /\ <>WalkReturned

\* C20 as amended: the call returns; at most folds folds, the test windows chained,
\* pairwise disjoint and strictly increasing in row order, every training row before
\* every test row of its fold in row order and never later in time; too few rows give
\* no fold
C20_WalkForwardInRowOrder ==
  [](WindowsChained /\ NeverEarlierInTime) /\ <>WalkReturned

\* two folds returned although more were asked for, over rows that share timestamps
C20_Witness ==
  /\ WalkReturned
  /\ Len(Folds) = 2
  /\ args.folds = 3
  /\ \E i \in 1..(Len(args.rows) - 1) : args.rows[i].ts = args.rows[i + 1].ts

(***************************************************************************)
(* Claims about summarizePerformance                                        *)
(***************************************************************************)
TradeOf(k) == evaluateSignal(args.signals[k], args.candles, args.opts)

NonOpen == { k \in 1..Len(args.signals) : TradeOf(k).outcome # "open" }

Losing == { k \in NonOpen : TradeOf(k).r.num < 0 }

Winning == { k \in NonOpen : TradeOf(k).r.num > 0 }

\* the sum of r over the trades of the signals in ks
RECURSIVE TotalR(_)
TotalR(ks) ==
  IF ks = {} THEN Frac(0, 1)
  ELSE LET k == CHOOSE x \in ks : TRUE
       IN FAdd(Frac(TradeOf(k).r.num, TradeOf(k).r.den), TotalR(ks \ { k }))

\* C21: expectancyR is the mean r of the non-open trades and null without any;
\* profitFactor is null exactly when the non-open trades lose nothing, and gross
\* profit over gross loss otherwise
C21_ExpectancyAndProfitFactor ==
  ret # << >> =>
     /\ (NonOpen = {}) = (ret[1].expectancyR = << >>)
     /\ NonOpen # {} =>
          FEq(ret[1].expectancyR[1], FDiv(TotalR(NonOpen), Frac(Cardinality(NonOpen), 1)))
     /\ (Losing = {}) = (ret[1].profitFactor = << >>)
     /\ Losing # {} =>
          FEq(ret[1].profitFactor[1],
              FDiv(TotalR(Winning), Frac(-TotalR(Losing).num, TotalR(Losing).den)))

\* a winner, a loser and a trade still open at a mark-to-market r other than 0
C21_Witness ==
  /\ ret # << >>
  /\ Winning # {} /\ Losing # {}
  /\ \E k \in 1..Len(args.signals) : TradeOf(k).outcome = "open" /\ TradeOf(k).r.num # 0

WrongSideOfEma(j) ==
  /\ EmaFinite(opts.emaValues, j)
  /\ IF signal.side = "long" THEN candles[j].close < opts.emaValues[j][1]
     ELSE candles[j].close > opts.emaValues[j][1]

TpEventTimes == { plan.events[k].time : k \in { n \in 1..Len(plan.events) : plan.events[n].type = "tp" } }

ExitEvents == { k \in 1..Len(plan.events) : plan.events[k].type = "exit" }

\* C23: with requireTpForExit, an EXIT comes only after a target was hit, on a bar
\* later than the bar of the last TP event, and with the close on the wrong side of
\* the EMA on the last confirmBars bars up to the EXIT bar; the count of violations
\* never exceeds the run of wrong-side bars that ends at the last bar scanned, so a
\* close back on the right side resets it
C23_ExitOnlyAfterTpAndConfirmedFlip ==
  (plan.pc \in { "loop", "done" } /\ opts.requireTpForExit) =>
     /\ \A k \in ExitEvents :
          LET t == plan.events[k].time
          IN /\ plan.tpsHit >= 1
             /\ TpEventTimes # {}
             /\ \A tp \in TpEventTimes : tp < t
             /\ \A j \in (t - Max(1, opts.confirmBars) + 1)..t :
                   j > plan.entryIdx /\ WrongSideOfEma(j)
     /\ plan.pc = "loop" =>
          \A j \in (plan.i - plan.trendViolations)..(plan.i - 1) :
             j > plan.entryIdx /\ WrongSideOfEma(j)

\* an EXIT confirmed by two wrong-side closes, the first of them on the bar of the TP
C23_Witness ==
  /\ plan.pc = "done" /\ plan.status = "exit"
  /\ opts.requireTpForExit /\ opts.confirmBars = 2
  /\ plan.tpsHit >= 1

(***************************************************************************)
(* Claims about degenerate signals                                          *)
(***************************************************************************)
ZeroRiskOrNonFinite ==
  \/ "entry" \in signal.nonFinite
  \/ "stop" \in signal.nonFinite
  \/ signal.entry = signal.stop

\* C22: for a signal with risk 0 or a non-finite entry or stop, computeRTargets
\* returns no target, simulateTradePlan returns at once with status open, tpsHit 0, no
\* targets, no events and a finite risk, and evaluateSignal returns open with r = 0
C22_DegenerateSignalIsOpen ==
  ZeroRiskOrNonFinite =>
     /\ ret # << >> => ret[1] = << >>
     /\ plan.pc \in { "call", "done" }
     /\ plan.pc = "done" =>
          /\ plan.status = "open" /\ plan.tpsHit = 0
          /\ plan.targets = << >> /\ plan.events = << >>
          /\ plan.risk = 0
     /\ trade.outcome # "none" =>
          /\ trade.outcome = "open"
          /\ trade.r.num = 0 /\ trade.r.den # 0
          /\ trade.barsHeld = 0

\* all three have returned for a signal whose stop is not finite, over bars that
\* reach 4 and 7
C22_Witness ==
  /\ signal.nonFinite = { "stop" }
  /\ ret # << >> /\ plan.pc = "done" /\ trade.outcome = "open"
  /\ Len(candles) = MaxBars
  /\ \E k \in 2..Len(candles) : candles[k].low <= 4
  /\ \E k \in 2..Len(candles) : candles[k].high >= 7

(***************************************************************************)
(* Claims about the bar of the signal                                       *)
(***************************************************************************)
\* the candles at or after the signal's timestamp; the first of them is its own bar
AtOrAfterSignal == { k \in 1..Len(candles) : candles[k].time >= signal.timestamp }

OwnBar == CHOOSE k \in AtOrAfterSignal : \A j \in AtOrAfterSignal : k <= j

\* candle c reaches the stop, the first R target or tp1 of the signal
TouchesLevel(c) ==
  \/ StopTouched(signal, c)
  \/ TpTouched(signal, c)
  \/ IF signal.side = "long" THEN c.high >= signal.entry + Abs(signal.entry - signal.stop)
     ELSE c.low <= signal.entry - Abs(signal.entry - signal.stop)

TouchedAfterOwnBar == \E k \in AtOrAfterSignal : k > OwnBar /\ TouchesLevel(candles[k])

\* C29: evaluateSignal and simulateTradePlan never examine the signal's own bar: every
\* event is later than that bar, a stop or tp1 outcome has barsHeld >= 1, and without
\* a touch on a later bar there is no stop, tp1 or TP
C29_OwnBarNeverExamined ==
  /\ plan.pc # "call" =>
       /\ \A e \in 1..Len(plan.events) :
            AtOrAfterSignal # {} /\ plan.events[e].time > candles[OwnBar].time
       /\ (AtOrAfterSignal = {} \/ ~TouchedAfterOwnBar) =>
            \A e \in 1..Len(plan.events) : plan.events[e].type \notin {"stop", "tp"}
  /\ trade.outcome \in {"stop", "tp1"} =>
       /\ trade.barsHeld >= 1
       /\ AtOrAfterSignal # {} /\ TouchedAfterOwnBar

\* both functions have returned for a signal whose own bar reaches the stop and the
\* first target while the bars after it reach nothing: no event, no stop, no tp1
C29_Witness ==
  /\ plan.pc = "done" /\ trade.outcome \notin {"none", "stop", "tp1"}
  /\ signal.nonFinite = {} /\ signal.stop # signal.entry
  /\ AtOrAfterSignal # {} /\ OwnBar < Len(candles)
  /\ StopTouched(signal, candles[OwnBar])
  /\ IF signal.side = "long" THEN candles[OwnBar].high > signal.entry
     ELSE candles[OwnBar].low < signal.entry
  /\ ~TouchedAfterOwnBar
  /\ plan.events = <<>>

(***************************************************************************)
(* Claims about mapLimit                                                    *)
(***************************************************************************)
\* the invocations of fn whose promise has not settled
InFlight == { k \in 1..args.n : ret[1].inv[k] = "pending" }

\* nothing is in flight and no callback is waiting to run
Quiescent == \A k \in 1..args.n : ret[1].inv[k] \in {"idle", "done"}

\* C30: mapLimit never has more than limit invocations of fn in flight, starts fn
\* exactly once for every item, and its promise resolves only after every invocation
\* has settled, at once for an empty list
C30_BoundedOnceAndResolvedAfterAll ==
  ret # << >> =>
    /\ Cardinality(InFlight) <= args.limit
    /\ \A k \in 1..args.n : ret[1].starts[k] <= 1
    /\ Quiescent => \A k \in 1..args.n : ret[1].starts[k] = 1
    /\ ret[1].promise = "resolved" =>
         \A k \in 1..args.n : ret[1].starts[k] = 1 /\ ret[1].inv[k] \notin {"idle", "pending"}
    /\ args.n = 0 => ret[1].promise = "resolved"

\* a call with more items than the limit has resolved; the results arrived in another
\* order than the items
C30_Witness ==
  /\ ret # << >>
  /\ args.n > args.limit
  /\ args.rejects = {}
  /\ ret[1].promise = "resolved"
  /\ Len(ret[1].results) = args.n
  /\ ret[1].results[1] # 1

(***************************************************************************)
(* Claims about simulateTradePlan                                          *)
(***************************************************************************)
IsTerminal(e) == e.type \in {"stop", "exit"}

TerminalEvents(ev) == { k \in 1..Len(ev) : IsTerminal(ev[k]) }

TpEvents(ev) == SelectSeq(ev, LAMBDA e : e.type = "tp")

\* C7: simulateTradePlan emits events in non-decreasing time order with at most
\* one terminal (stop or exit) event, which is then the last event; the returned
\* status is 'stop' / 'exit' exactly when that event exists and 'open' otherwise.
C7_EventsOrderedOneTerminal ==
  plan.pc # "call" =>
    /\ \A a, b \in 1..Len(plan.events) : a < b => plan.events[a].time <= plan.events[b].time
    /\ Cardinality(TerminalEvents(plan.events)) <= 1
    /\ \A k \in TerminalEvents(plan.events) : k = Len(plan.events)
    /\ plan.pc = "done" =>
         /\ (plan.status = "stop") = (\E k \in 1..Len(plan.events) : plan.events[k].type = "stop")
         /\ (plan.status = "exit") = (\E k \in 1..Len(plan.events) : plan.events[k].type = "exit")
         /\ (plan.status = "open") = (TerminalEvents(plan.events) = {})

C7_Witness ==
  /\ plan.pc = "done"
  /\ Len(plan.events) >= 2
  /\ plan.events[1].type = "tp"
  /\ IsTerminal(plan.events[Len(plan.events)])

\* the bar about to be scanned touches the stop and a target not yet hit
BarTouchesStopAndTarget ==
  /\ plan.pc = "loop"
  /\ plan.i <= plan.end
  /\ StopTouched(signal, candles[plan.i])
  /\ \E k \in plan.nextTargetIdx..Len(plan.targets) :
       IF signal.side = "long" THEN candles[plan.i].high >= plan.targets[k].price
                               ELSE candles[plan.i].low <= plan.targets[k].price

\* C8: when one bar touches both the stop and a not-yet-hit target, only a STOP
\* event is emitted for that bar: tpsHit is not incremented, no TP event carries
\* that bar's time, and the status becomes 'stop'.
C8_StopWinsSameBar ==
  [][ BarTouchesStopAndTarget =>
        /\ plan'.tpsHit = plan.tpsHit
        /\ plan'.status = "stop"
        /\ plan'.events = Append(plan.events, [type |-> "stop", time |-> candles[plan.i].time])
        /\ \A k \in 1..Len(plan'.events) :
             plan'.events[k].type = "tp" => plan'.events[k].time # candles[plan.i].time ]_vars

C8_Witness ==
  /\ plan.pc = "done"
  /\ plan.status = "stop"
  /\ plan.nextTargetIdx <= Len(plan.targets)
  /\ IF signal.side = "long" THEN candles[plan.i].high >= plan.targets[plan.nextTargetIdx].price
                             ELSE candles[plan.i].low <= plan.targets[plan.nextTargetIdx].price
  /\ plan.events[Len(plan.events)] = [type |-> "stop", time |-> candles[plan.i].time]

TpLadderContiguous ==
  plan.pc # "call" =>
    LET tps == TpEvents(plan.events)
    IN /\ \A k \in 1..Len(tps) :
            /\ tps[k].tpFrom <= tps[k].tpTo
            /\ tps[k].tpFrom = (IF k = 1 THEN 0 ELSE tps[k - 1].tpTo) + 1
            /\ \A j \in 1..Len(tps) : j # k => tps[j].time # tps[k].time
       /\ plan.tpsHit = (IF Len(tps) = 0 THEN 0 ELSE tps[Len(tps)].tpTo)
       /\ plan.tpsHit <= Len(plan.targets)

\* C9: with an increasing R ladder tpsHit never decreases from bar to bar, each bar
\* emits at most one TP event, successive TP events cover contiguous increasing
\* target ranges, and tpsHit equals the last TP event's tpTo and never exceeds the
\* number of targets.
C9_TpsHitMonotoneContiguous ==
  /\ []TpLadderContiguous
  /\ [][ plan.pc # "call" => plan'.tpsHit >= plan.tpsHit ]_vars

C9_Witness ==
  /\ plan.pc = "done"
  /\ Len(TpEvents(plan.events)) >= 2
  /\ plan.tpsHit >= 2

(***************************************************************************)
(* Claims about evaluateSignal                                             *)
(***************************************************************************)
\* the signal's own bar: the first candle at or after the signal timestamp
SignalBar == CHOOSE k \in 1..Len(candles) :
               /\ candles[k].time >= signal.timestamp
               /\ \A j \in 1..(k - 1) : candles[j].time < signal.timestamp

\* the forward bars of the hold window
HoldWindow == (SignalBar + 1)..Min(Len(candles), SignalBar + opts.maxHoldBars)

Evaluable ==
  /\ Len(candles) > 0
  /\ signal.timestamp >= candles[1].time
  /\ signal.timestamp <= candles[Len(candles)].time
  /\ signal.entry # signal.stop

TouchesStop(k) ==
  IF signal.side = "long" THEN candles[k].low <= signal.stop ELSE candles[k].high >= signal.stop

TouchesTp1(k) ==
  IF signal.side = "long" THEN candles[k].high >= signal.tp1 ELSE candles[k].low <= signal.tp1

FirstTouch == { k \in HoldWindow : /\ TouchesStop(k) \/ TouchesTp1(k)
                                   /\ \A j \in HoldWindow : j < k => ~TouchesStop(j) /\ ~TouchesTp1(j) }

TotalBps == IF opts.executionCosts = <<>> THEN 0
            ELSE opts.executionCosts[1].feeBps + opts.executionCosts[1].slippageBps

\* trade.r = (a - cost(exit)) with cost = (entry + exit) * bps / 10000 / risk, cross-multiplied
REquals(a, exit) ==
  LET risk == Abs(signal.entry - signal.stop)
  IN trade.r.num * (10000 * risk) =
       (a * 10000 * risk - (signal.entry + exit) * TotalBps) * trade.r.den

\* C10: evaluateSignal classifies by the first forward bar of the hold window that
\* touches the stop or tp1: 'stop' with r = -1 - cost when that bar touches the stop
\* (even if it also touches tp1), 'tp1' with r = rr - cost when it touches only tp1;
\* mirrored (high for stop, low for tp1) for shorts.
C10_FirstTouchClassifies ==
  (trade.outcome # "none" /\ Evaluable) =>
    \A k \in FirstTouch :
      IF TouchesStop(k)
      THEN trade.outcome = "stop" /\ REquals(0 - 1, signal.stop) /\ trade.barsHeld = k - SignalBar
      ELSE trade.outcome = "tp1" /\ REquals(signal.rr, signal.tp1) /\ trade.barsHeld = k - SignalBar

C10_Witness ==
  /\ trade.outcome # "none"
  /\ Evaluable
  /\ signal.side = "short"
  /\ TotalBps > 0
  /\ \E k \in FirstTouch : TouchesStop(k) /\ TouchesTp1(k) /\ k > SignalBar + 1
  /\ trade.outcome = "stop"

\* trade.r = move / risk - cost(exit) for a close at price exit, cross-multiplied
RAtClose(exit) ==
  LET risk == Abs(signal.entry - signal.stop)
      move == IF signal.side = "long" THEN exit - signal.entry ELSE signal.entry - exit
  IN trade.r.num * (10000 * risk) =
       (move * 10000 - (signal.entry + exit) * TotalBps) * trade.r.den

\* C11: when no bar of the hold window touches the stop or tp1, the outcome is
\* 'timeout', with r measured at the close of the window's last bar, when a candle
\* exists after the window's maxHoldBars-th bar, and 'open' when the window reaches
\* the end of the candles
C11_TimeoutOrOpen ==
  (trade.outcome # "none" /\ Evaluable /\ FirstTouch = {}) =>
    LET last == SignalBar + opts.maxHoldBars
    IN IF last < Len(candles)
       THEN /\ trade.outcome = "timeout"
            /\ RAtClose(candles[last].close)
            /\ trade.barsHeld = opts.maxHoldBars
       ELSE trade.outcome = "open"

\* a short held to the end of its window with a profit at the close, costs charged
C11_Witness ==
  /\ trade.outcome = "timeout"
  /\ Evaluable
  /\ FirstTouch = {}
  /\ TotalBps > 0
  /\ candles[SignalBar + opts.maxHoldBars].close # signal.entry
  /\ trade.r.num > 0

====
